---- MODULE Spec2Model ----
(***************************************************************************)
(* Inventory ledger and purchase-request state machine of the franchise    *)
(* management backend (backend/app/routes/inventory_routes.py,             *)
(* request_routes.py, sales_routes.py) over the store that backend/seed.py *)
(* creates.                                                                *)
(*                                                                         *)
(* The store is the committed content of the tables branch_inventories,    *)
(* inventory_transactions and stock_purchase_requests (with its items).    *)
(* Quantities are Decimal in the source and integers here.  A nullable     *)
(* integer column holds None (0) when it is NULL.                          *)
(***************************************************************************)
EXTENDS Integers, Sequences, FiniteSets, TLC

\* ------------------------------------------------------------------------
\* Bounds of the model
\* ------------------------------------------------------------------------
MaxLedger == 2
MaxRequestItems == 2
MaxTick == 2

\* ------------------------------------------------------------------------
\* Reference data and entities written by seed.py
\* ------------------------------------------------------------------------
None == 0

\* a DateTime column: NULL, or the value datetime.utcnow() returned
NoTime == "NULL"

\* a Text column that is NULL
NoText == "NULL"
utcnow == "utcnow"

ROLE_BRANCH_OWNER == 1
ROLE_MANAGER == 2
ROLE_STAFF == 3

RoleName(role_id) ==
    CASE role_id = ROLE_BRANCH_OWNER -> "BRANCH_OWNER"
      [] role_id = ROLE_MANAGER -> "MANAGER"
      [] role_id = ROLE_STAFF -> "STAFF"
      [] OTHER -> "UNKNOWN"

BRANCH_STATUS_ACTIVE == 1
BRANCH_STATUS_INACTIVE == 2

STATUS_PENDING == 1
STATUS_APPROVED == 2
STATUS_REJECTED == 3

\* RequestStatus.query.filter_by(status_name=name).first(); None when absent
_get_status_id(name) ==
    CASE name = "PENDING" -> STATUS_PENDING
      [] name = "APPROVED" -> STATUS_APPROVED
      [] name = "REJECTED" -> STATUS_REJECTED
      [] OTHER -> None

TYPE_IN == 1
TYPE_OUT == 2
TYPE_ADJUSTMENT == 3

\* TransactionType.query.filter_by(type_name=code).first(); None when absent
TransactionTypeId(code) ==
    CASE code = "IN" -> TYPE_IN
      [] code = "OUT" -> TYPE_OUT
      [] code = "ADJUSTMENT" -> TYPE_ADJUSTMENT
      [] OTHER -> None

\* the mapped columns of the TransactionType model
TransactionTypeColumns == {"transaction_type_id", "type_name"}

\* branches as seed.py leaves the table: the one branch of franchise 1
\* a row of branches; code is the branch code, a name and the number that
\* follows it
Branch(branch_id, franchise_id, code, address_id, branch_owner_user_id, manager_user_id) ==
    [branch_id |-> branch_id, franchise_id |-> franchise_id, code |-> code,
     address_id |-> address_id, branch_owner_user_id |-> branch_owner_user_id,
     manager_user_id |-> manager_user_id, status_id |-> BRANCH_STATUS_ACTIVE]

SeedBranches == [b \in {1} |-> Branch(b, 1, <<"RELAY-VD", None>>, 1, 1, 2)]

\* stock_items: Burger Bun, Patty, Milk, all of franchise 1
StockItems == {1, 2, 3}
StockItemRow(s) ==
    [stock_item_id |-> s, franchise_id |-> 1,
     name |-> CASE s = 1 -> "Burger Bun" [] s = 2 -> "Patty" [] OTHER -> "Milk"]

\* products: Relay Burger, Relay Shake, both of franchise 1
Products == {1, 2}
ProductRow(p) ==
    [product_id |-> p, franchise_id |-> 1,
     name |-> IF p = 1 THEN "Relay Burger" ELSE "Relay Shake"]

\* users and their role assignments (user_roles) as seed.py leaves them
\* hash_password: the SHA-256 digest of the password
hash_password(password) == <<"sha256", password>>

\* verify_password
verify_password(password, hashed) == hash_password(password) = hashed

\* email, phone and password of the users seed.py writes; the applicant 4
\* registers with those of the last line
UserEmail(u) ==
    CASE u = 1 -> "rahul@gmail.com" [] u = 2 -> "mcd.manager@mcd.com"
      [] u = 3 -> "relay.staff@relay.com" [] OTHER -> "applicant@mail.com"
UserPhone(u) ==
    CASE u = 1 -> "9999999999" [] u = 2 -> "9888888888"
      [] u = 3 -> "9777777777" [] OTHER -> "9666666666"
UserPassword(u) ==
    CASE u = 1 -> "rahul123" [] u = 2 -> "manager123"
      [] u = 3 -> "staff123" [] OTHER -> "Applicant1"

\* a row of users
User(user_id, email, phone, password_hash, is_active) ==
    [user_id |-> user_id, email |-> email, phone |-> phone,
     password_hash |-> password_hash, is_active |-> is_active]

SeedUsers ==
    [u \in {1, 2, 3} |->
        User(u, UserEmail(u), UserPhone(u), hash_password(UserPassword(u)), TRUE)]

\* a row of franchisors, and the one franchisor of seed.py
Franchisor(franchisor_id, email, phone, password_hash) ==
    [franchisor_id |-> franchisor_id, email |-> email, phone |-> phone,
     password_hash |-> password_hash]

SeedFranchisors ==
    [f \in {1} |-> Franchisor(f, "admin@system.com", "9100000000", hash_password("admin123"))]

\* a row of franchises, and the one franchise of seed.py
Franchise(franchise_id, franchisor_id) ==
    [franchise_id |-> franchise_id, franchisor_id |-> franchisor_id]

SeedFranchises == [f \in {1} |-> Franchise(f, 1)]

\* application_statuses of seed.py
APPLICATION_PENDING == 1
APPLICATION_APPROVED == 2
APPLICATION_REJECTED == 3

\* a row of franchise_applications
FranchiseApplication(application_id, franchise_id, branch_owner_user_id, status_id) ==
    [application_id |-> application_id, franchise_id |-> franchise_id,
     branch_owner_user_id |-> branch_owner_user_id, status_id |-> status_id]
SeedUserRoles ==
    { [user_id |-> 1, role_id |-> ROLE_BRANCH_OWNER, scope_type |-> "BRANCH", scope_id |-> 1],
      [user_id |-> 2, role_id |-> ROLE_MANAGER, scope_type |-> "BRANCH", scope_id |-> 1],
      [user_id |-> 3, role_id |-> ROLE_STAFF, scope_type |-> "BRANCH", scope_id |-> 1] }

\* the two cache rows of seed.py step 6; the seed writes no ledger row
SeedInventory ==
    { [branch_inventory_id |-> 1, branch_id |-> 1, stock_item_id |-> 1, quantity |-> 100],
      [branch_inventory_id |-> 2, branch_id |-> 1, stock_item_id |-> 3, quantity |-> 50] }

\* ------------------------------------------------------------------------
\* Inputs of the calls
\* ------------------------------------------------------------------------
Callers == {1, 2, 3}
BranchParams == {None, 1, 2}
StockItemParams == {1, 4}
TypeParams == {"IN", "OUT", "ADJUSTMENT", "RETURN"}
\* the "quantity" of a JSON payload: a number, the text "NaN", a text that is
\* no number, or null (the key is absent)
Number(n) == [text |-> "number", value |-> n]
NaN == [text |-> "NaN", value |-> 0]
NotNumeric == [text |-> "abc", value |-> 0]
Missing == [text |-> "null", value |-> 0]
QuantityParams == { Number(n) : n \in {-3, 2, 4} } \cup {NaN, NotNumeric}
DeliveryQuantityParams == {Number(0), Number(4), NaN, NotNumeric, Missing}

\* ------------------------------------------------------------------------
\* State
\* ------------------------------------------------------------------------
VARIABLES
    inventory,   \* committed rows of branch_inventories
    ledger,      \* committed rows of inventory_transactions
    requests,    \* committed rows of stock_purchase_requests, items inlined
    response,    \* the response returned last: handler and HTTP status
    workers,     \* position and session of each concurrent call
    users,       \* rows of users, by user_id
    user_roles,  \* rows of user_roles
    branches,    \* rows of branches, by branch_id
    franchisors, \* rows of franchisors, by franchisor_id
    franchises,  \* rows of franchises, by franchise_id
    applications, \* rows of franchise_applications, by application_id
    now,         \* the clock, in ticks since the epoch
    issued,      \* the tokens generate_token has returned
    g,           \* flask.g of the request served last
    request,     \* the request wrapper served last
    resolution   \* the branch resolver applied last and what it returned

store == <<inventory, ledger, requests, workers>>
principals == <<users, user_roles, branches, franchisors, franchises, applications>>
access == <<now, issued, g, request, resolution>>
vars == <<inventory, ledger, requests, response, workers,
          users, user_roles, branches, franchisors, franchises, applications,
          now, issued, g, request, resolution>>

\* the tables the handlers query
Users == DOMAIN users
UserRoles == user_roles
Branches == DOMAIN branches
Franchisors == DOMAIN franchisors
Franchises == DOMAIN franchises
Applications == DOMAIN applications
BranchRow(b) == branches[b]

\* ------------------------------------------------------------------------
\* Helpers
\* ------------------------------------------------------------------------
Max(S) == CHOOSE m \in S : \A x \in S : x <= m
Min(S) == CHOOSE m \in S : \A x \in S : m <= x

InventoryIds(inv) == { r.branch_inventory_id : r \in inv }
TransactionIds(led) == { t.transaction_id : t \in led }
RequestIds(reqs) == { r.request_id : r \in reqs }

\* func.coalesce(func.max(pk_column), 0)
MaxId(ids) == IF ids = {} THEN 0 ELSE Max(ids)

RECURSIVE NextFree(_, _)
\* while query.get(next_value) is not None: next_value += 1
NextFree(ids, n) == IF n \in ids THEN NextFree(ids, n + 1) ELSE n

_next_id(ids) == NextFree(ids, MaxId(ids) + 1)

RECURSIVE SumChange(_)
SumChange(rows) ==
    IF rows = {} THEN 0
    ELSE LET t == CHOOSE x \in rows : TRUE
         IN t.quantity_change + SumChange(rows \ {t})

LedgerOf(led, b, s) == { t \in led : t.branch_id = b /\ t.stock_item_id = s }
LedgerSum(led, b, s) == SumChange(LedgerOf(led, b, s))
CacheOf(inv, b, s) == { r \in inv : r.branch_id = b /\ r.stock_item_id = s }

NoRecord == [branch_inventory_id |-> None, branch_id |-> None, stock_item_id |-> None, quantity |-> 0]

\* BranchInventory.query.filter_by(branch_id=..., stock_item_id=...).first()
FirstInventory(inv, b, s) ==
    IF CacheOf(inv, b, s) = {} THEN NoRecord
    ELSE CHOOSE r \in CacheOf(inv, b, s) :
            \A o \in CacheOf(inv, b, s) : r.branch_inventory_id <= o.branch_inventory_id

\* ------------------------------------------------------------------------
\* Principal and role gate (utils/security.py)
\* ------------------------------------------------------------------------
NoRole == [user_id |-> None, role_id |-> None, scope_type |-> "NONE", scope_id |-> None]

\* the role_stub of a franchisor
RoleStub == [user_id |-> None, role_id |-> None, scope_type |-> "GLOBAL", scope_id |-> None]

\* role.role.name of g.current_role: the name of the role the assignment
\* names, "FRANCHISOR" for the role_stub
CurrentRoleNameOf(role) ==
    IF role = RoleStub THEN "FRANCHISOR" ELSE RoleName(role.role_id)

_select_primary_role(uid) ==
    LET mine == { a \in UserRoles : a.user_id = uid }
    IN IF mine = {} THEN NoRole
       ELSE CHOOSE a \in mine : \A o \in mine : a.role_id <= o.role_id

CurrentRoleName(uid) ==
    IF _select_primary_role(uid) = NoRole THEN "UNKNOWN"
    ELSE RoleName(_select_primary_role(uid).role_id)

\* position of a scope type under ORDER BY scope_type DESC: the column is a
\* non-native enum, compared as a string on the default SQLite database
ScopeTypeDesc(scope_type) ==
    CASE scope_type = "GLOBAL" -> 1
      [] scope_type = "FRANCHISE" -> 2
      [] scope_type = "BRANCH" -> 3
      [] OTHER -> 4

\* _select_primary_role of routes/auth_routes.py, which login calls
_select_primary_role_login(uid) ==
    LET mine == { a \in UserRoles : a.user_id = uid }
    IN IF mine = {} THEN NoRole
       ELSE CHOOSE a \in mine : \A o \in mine :
                \/ ScopeTypeDesc(a.scope_type) < ScopeTypeDesc(o.scope_type)
                \/ /\ a.scope_type = o.scope_type
                   /\ a.scope_id <= o.scope_id

\* a variant of is_allowed without the role check
is_allowed_always(role_name, allowed_set) == TRUE

\* the role permission check of wrapper: membership, and a FRANCHISOR passes
\* where SYSTEM_ADMIN is allowed
is_allowed(role_name, allowed_set) ==
    \/ role_name \in allowed_set
    \/ "SYSTEM_ADMIN" \in allowed_set /\ role_name = "FRANCHISOR"

\* token_required(allowed_roles) for a caller whose token names the user uid:
\* "UNAUTHORIZED", "FORBIDDEN" or "PASS"
token_required(uid, allowed) ==
    IF uid \notin Users THEN "UNAUTHORIZED"
    ELSE IF ~users[uid].is_active THEN "FORBIDDEN"
    ELSE IF allowed # {} /\ ~is_allowed(CurrentRoleName(uid), allowed) THEN "FORBIDDEN"
    ELSE "PASS"

\* ------------------------------------------------------------------------
\* Branch resolution
\* ------------------------------------------------------------------------
Resolved(b) == [status |-> "PASS", branch_id |-> b]
Refused(code) == [status |-> code, branch_id |-> None]

\* inventory_routes._allowed_branch_id
_allowed_branch_id(role, explicit_branch_id) ==
    LET branch_id == IF role.scope_type = "BRANCH" THEN role.scope_id ELSE explicit_branch_id
    IN IF role = NoRole THEN Refused("FORBIDDEN")
       ELSE IF branch_id = None THEN Refused("BAD_REQUEST")
       ELSE IF role.scope_type = "FRANCHISE"
            THEN IF branch_id \notin Branches \/ BranchRow(branch_id).franchise_id # role.scope_id
                 THEN Refused("FORBIDDEN") ELSE Resolved(branch_id)
            ELSE IF branch_id # role.scope_id
                 THEN Refused("FORBIDDEN") ELSE Resolved(branch_id)

\* a variant of _resolve_branch_id that asks of the branch a FRANCHISE scope
\* names only that it exists
_resolve_branch_id_existing(role, explicit_branch_id) ==
    IF role = NoRole THEN Refused("FORBIDDEN")
       ELSE IF role.scope_type = "BRANCH"
            THEN IF explicit_branch_id # None /\ explicit_branch_id # role.scope_id
                 THEN Refused("FORBIDDEN") ELSE Resolved(role.scope_id)
       ELSE IF role.scope_type = "FRANCHISE"
            THEN IF explicit_branch_id = None THEN Refused("BAD_REQUEST")
                 ELSE IF explicit_branch_id \notin Branches
                      THEN Refused("FORBIDDEN") ELSE Resolved(explicit_branch_id)
       ELSE IF explicit_branch_id = None THEN Refused("BAD_REQUEST")
            ELSE Resolved(explicit_branch_id)

\* request_routes._resolve_branch_id
_resolve_branch_id(role, explicit_branch_id) ==
    IF role = NoRole THEN Refused("FORBIDDEN")
       ELSE IF role.scope_type = "BRANCH"
            THEN IF explicit_branch_id # None /\ explicit_branch_id # role.scope_id
                 THEN Refused("FORBIDDEN") ELSE Resolved(role.scope_id)
       ELSE IF role.scope_type = "FRANCHISE"
            THEN IF explicit_branch_id = None THEN Refused("BAD_REQUEST")
                 ELSE IF explicit_branch_id \notin Branches
                         \/ BranchRow(explicit_branch_id).franchise_id # role.scope_id
                      THEN Refused("FORBIDDEN") ELSE Resolved(explicit_branch_id)
       ELSE IF explicit_branch_id = None THEN Refused("BAD_REQUEST")
            ELSE Resolved(explicit_branch_id)

\* ------------------------------------------------------------------------
\* Ledger engine (inventory_routes.py)
\* ------------------------------------------------------------------------
Transaction(tid, b, s, type_id, delta, creator, approver, note) ==
    [transaction_id |-> tid, branch_id |-> b, stock_item_id |-> s,
     transaction_type_id |-> type_id, quantity_change |-> delta,
     created_by_user_id |-> creator, approved_by_user_id |-> approver, note |-> note]

NoNote == <<"none", None>>

\* The session's view of branch_inventories: the committed rows, with the row
\* the session has loaded (record) as it was when it was loaded.
SessionInventory(inv, record) ==
    IF record = NoRecord THEN inv
    ELSE { r \in inv : r.branch_inventory_id # record.branch_inventory_id } \cup {record}

\* record.quantity = record.quantity + quantity_delta, flushed as an UPDATE of
\* the row with the record's primary key; a record that was absent is
\* inserted first with quantity 0 (_get_or_create_inventory)
AddToInventory(inv, record, b, s, delta) ==
    LET rec == IF record = NoRecord
               THEN [branch_inventory_id |-> _next_id(InventoryIds(inv)),
                     branch_id |-> b, stock_item_id |-> s, quantity |-> 0]
               ELSE record
    IN { r \in inv : r.branch_inventory_id # rec.branch_inventory_id }
         \cup { [rec EXCEPT !.quantity = rec.quantity + delta] }

\* a variant of _apply_transaction that keeps one ledger row per pair: the
\* rows of the pair are replaced by the new one
_apply_transaction_replacing(inv, led, record, b, s, delta, type_id, uid, note) ==
    [inventory |-> AddToInventory(inv, record, b, s, delta),
     ledger |-> (led \ LedgerOf(led, b, s))
                    \cup { Transaction(_next_id(TransactionIds(led)), b, s, type_id,
                                       delta, uid, None, note) }]

\* _apply_transaction on the record that _get_or_create_inventory returned
_apply_transaction(inv, led, record, b, s, delta, type_id, uid, note) ==
    [inventory |-> AddToInventory(inv, record, b, s, delta),
     ledger |-> led \cup { Transaction(_next_id(TransactionIds(led)), b, s, type_id,
                                       delta, uid, None, note) }]

\* a variant of NormalizeQuantity that passes every quantity through
NormalizeQuantityUnchanged(code, quantity) == quantity

\* the sign rule of create_transaction
NormalizeQuantity(code, quantity) ==
    IF code = "OUT" /\ quantity > 0 THEN quantity * (-1)
    ELSE IF code = "IN" /\ quantity < 0 THEN -quantity
    ELSE quantity

\* Decimal(str(quantity_raw)): InvalidOperation on a text that is no decimal
\* literal.  "NaN" is one: its Decimal takes part in arithmetic, raises
\* InvalidOperation in an order comparison and is refused by the NOT NULL
\* numeric columns when it is flushed.
Decimal(quantity_raw) ==
    [raised |-> quantity_raw.text \notin {"number", "NaN"},
     is_nan |-> quantity_raw.text = "NaN",
     value |-> quantity_raw.value]

\* what a call returns: the handler and the HTTP status
Response(op, status) == [op |-> op, status |-> status]

\* a variant of CreateTransactionCheck that refuses a delta that would take
\* the quantity of the pair below zero
CreateTransactionCheckFloored(uid, branch_param, stock_item_id, code, quantity_raw) ==
    LET gate == token_required(uid, {"BRANCH_OWNER", "MANAGER"})
        result == _allowed_branch_id(_select_primary_role(uid), branch_param)
    IN IF gate # "PASS" THEN gate
       ELSE IF result.status # "PASS" THEN result.status
       ELSE IF stock_item_id \notin StockItems THEN "BAD_REQUEST"
       ELSE IF BranchRow(result.branch_id).franchise_id # StockItemRow(stock_item_id).franchise_id
            THEN "BAD_REQUEST"
       ELSE IF code \notin {"IN", "OUT", "ADJUSTMENT"} THEN "BAD_REQUEST"
       ELSE IF quantity_raw.text # "number" THEN "BAD_REQUEST"
       ELSE IF FirstInventory(inventory, result.branch_id, stock_item_id).quantity
                  + NormalizeQuantity(code, quantity_raw.value) < 0
            THEN "BAD_REQUEST"
       ELSE "PASS"

\* the checks of create_transaction before _apply_transaction: the status
\* returned early, or "PASS"
CreateTransactionCheck(uid, branch_param, stock_item_id, code, quantity_raw) ==
    LET gate == token_required(uid, {"BRANCH_OWNER", "MANAGER"})
        result == _allowed_branch_id(_select_primary_role(uid), branch_param)
    IN IF gate # "PASS" THEN gate
       ELSE IF result.status # "PASS" THEN result.status
       ELSE IF stock_item_id = None THEN "BAD_REQUEST"
       ELSE IF stock_item_id \notin StockItems THEN "BAD_REQUEST"
       ELSE IF result.branch_id \notin Branches
               \/ BranchRow(result.branch_id).franchise_id # StockItemRow(stock_item_id).franchise_id
            THEN "BAD_REQUEST"
       ELSE IF code \notin {"IN", "OUT", "ADJUSTMENT"} THEN "BAD_REQUEST"
       ELSE IF quantity_raw = Missing THEN "BAD_REQUEST"
       ELSE IF Decimal(quantity_raw).raised THEN "BAD_REQUEST"
       ELSE IF code \in {"IN", "OUT"} /\ Decimal(quantity_raw).is_nan
            THEN "INTERNAL_SERVER_ERROR"   \* the comparison raises
       ELSE IF TransactionTypeId(code) = None THEN "INTERNAL_SERVER_ERROR"
       ELSE IF Decimal(quantity_raw).is_nan
            THEN "INTERNAL_SERVER_ERROR"   \* the flush raises
       ELSE "PASS"

create_transaction(uid, branch_param, stock_item_id, code, quantity_raw) ==
    LET check == CreateTransactionCheck(uid, branch_param, stock_item_id, code, quantity_raw)
        b == _allowed_branch_id(_select_primary_role(uid), branch_param).branch_id
        applied == _apply_transaction(inventory, ledger,
                                      FirstInventory(inventory, b, stock_item_id),
                                      b, stock_item_id,
                                      NormalizeQuantity(code, Decimal(quantity_raw).value),
                                      TransactionTypeId(code), uid, NoNote)
    IN IF check # "PASS"
       THEN /\ response' = Response("create_transaction", check)
            /\ UNCHANGED <<inventory, ledger, requests, workers>>
       ELSE /\ Cardinality(ledger) < MaxLedger
            /\ inventory' = applied.inventory
            /\ ledger' = applied.ledger
            /\ response' = Response("create_transaction", "CREATED")
            /\ UNCHANGED <<requests, workers>>

\* the checks of record_stock_delivery before _apply_transaction
RecordStockDeliveryCheck(uid, branch_param, stock_item_id, quantity_raw) ==
    LET gate == token_required(uid, {"BRANCH_OWNER", "MANAGER", "STAFF"})
        result == _allowed_branch_id(_select_primary_role(uid), branch_param)
    IN IF gate # "PASS" THEN gate
       ELSE IF result.status # "PASS" THEN result.status
       ELSE IF stock_item_id = None THEN "BAD_REQUEST"
       ELSE IF quantity_raw = Missing THEN "BAD_REQUEST"
       ELSE IF Decimal(quantity_raw).raised THEN "BAD_REQUEST"
       ELSE IF Decimal(quantity_raw).is_nan
            THEN "INTERNAL_SERVER_ERROR"   \* the comparison raises
       ELSE IF Decimal(quantity_raw).value <= 0 THEN "BAD_REQUEST"
       ELSE IF result.branch_id \notin Branches THEN "NOT_FOUND"
       ELSE IF stock_item_id \notin StockItems
               \/ StockItemRow(stock_item_id).franchise_id # BranchRow(result.branch_id).franchise_id
            THEN "BAD_REQUEST"
       ELSE IF TransactionTypeId("IN") = None THEN "INTERNAL_SERVER_ERROR"
       ELSE "PASS"

record_stock_delivery(uid, branch_param, stock_item_id, quantity_raw) ==
    LET check == RecordStockDeliveryCheck(uid, branch_param, stock_item_id, quantity_raw)
        b == _allowed_branch_id(_select_primary_role(uid), branch_param).branch_id
        applied == _apply_transaction(inventory, ledger,
                                      FirstInventory(inventory, b, stock_item_id),
                                      b, stock_item_id, Decimal(quantity_raw).value,
                                      TransactionTypeId("IN"), uid, <<"delivery", None>>)
    IN IF check # "PASS"
       THEN /\ response' = Response("record_stock_delivery", check)
            /\ UNCHANGED <<inventory, ledger, requests, workers>>
       ELSE /\ Cardinality(ledger) < MaxLedger
            /\ inventory' = applied.inventory
            /\ ledger' = applied.ledger
            /\ response' = Response("record_stock_delivery", "CREATED")
            /\ UNCHANGED <<requests, workers>>

\* the checks of create_branch_inventory before the two inserts
CreateBranchInventoryCheck(inv, uid, branch_param, stock_item_id, quantity_raw) ==
    LET gate == token_required(uid, {"BRANCH_OWNER", "MANAGER"})
        result == _allowed_branch_id(_select_primary_role(uid), branch_param)
    IN IF gate # "PASS" THEN gate
       ELSE IF result.status # "PASS" THEN result.status
       ELSE IF stock_item_id = None THEN "BAD_REQUEST"
       ELSE IF Decimal(quantity_raw).raised THEN "BAD_REQUEST"
       ELSE IF Decimal(quantity_raw).is_nan
            THEN "INTERNAL_SERVER_ERROR"   \* the comparison raises
       ELSE IF Decimal(quantity_raw).value < 0 THEN "BAD_REQUEST"
       ELSE IF result.branch_id \notin Branches THEN "NOT_FOUND"
       ELSE IF stock_item_id \notin StockItems
               \/ StockItemRow(stock_item_id).franchise_id # BranchRow(result.branch_id).franchise_id
            THEN "BAD_REQUEST"
       ELSE IF CacheOf(inv, result.branch_id, stock_item_id) # {} THEN "BAD_REQUEST"
       ELSE IF TransactionTypeId("ADJUSTMENT") = None /\ TransactionTypeId("IN") = None
            THEN "INTERNAL_SERVER_ERROR"
       ELSE "PASS"

create_branch_inventory(uid, branch_param, stock_item_id, quantity_raw) ==
    LET check == CreateBranchInventoryCheck(inventory, uid, branch_param, stock_item_id, quantity_raw)
        quantity == Decimal(quantity_raw).value
        b == _allowed_branch_id(_select_primary_role(uid), branch_param).branch_id
        type_id == IF TransactionTypeId("ADJUSTMENT") # None
                   THEN TransactionTypeId("ADJUSTMENT") ELSE TransactionTypeId("IN")
    IN IF check # "PASS"
       THEN /\ response' = Response("create_branch_inventory", check)
            /\ UNCHANGED <<inventory, ledger, requests, workers>>
       ELSE /\ Cardinality(ledger) < MaxLedger
            /\ inventory' = inventory \cup
                   { [branch_inventory_id |-> _next_id(InventoryIds(inventory)),
                      branch_id |-> b, stock_item_id |-> stock_item_id, quantity |-> quantity] }
            /\ ledger' = ledger \cup
                   { Transaction(_next_id(TransactionIds(ledger)), b, stock_item_id, type_id,
                                 quantity, uid, None, <<"initial", None>>) }
            /\ response' = Response("create_branch_inventory", "CREATED")
            /\ UNCHANGED <<requests, workers>>

\* ------------------------------------------------------------------------
\* Sales (sales_routes.py)
\* ------------------------------------------------------------------------
\* sales_routes._ensure_branch_scope
_ensure_branch_scope(role, branch_id) ==
    IF role = NoRole THEN Refused("FORBIDDEN")
       ELSE IF CurrentRoleNameOf(role) = "SYSTEM_ADMIN"
            THEN IF branch_id = None THEN Refused("BAD_REQUEST") ELSE Resolved(branch_id)
       ELSE IF role.scope_type = "BRANCH" THEN Resolved(role.scope_id)
       ELSE IF role.scope_type = "FRANCHISE"
            THEN IF branch_id = None THEN Refused("BAD_REQUEST")
                 ELSE IF branch_id \notin Branches
                         \/ BranchRow(branch_id).franchise_id # role.scope_id
                      THEN Refused("FORBIDDEN") ELSE Resolved(branch_id)
       ELSE Refused("FORBIDDEN")

\* sales_routes._get_transaction_type_id filters transaction_types by the
\* attribute "code"; filter_by raises when the model has no such attribute
SalesTransactionTypeLookup(code) ==
    IF "code" \notin TransactionTypeColumns THEN [raised |-> TRUE, id |-> None]
    ELSE [raised |-> FALSE, id |-> TransactionTypeId(code)]

\* StockItem.query.filter_by(franchise_id=..., name=product.name).first()
StockItemNamed(franchise_id, name) ==
    LET found == { s \in StockItems : StockItemRow(s).franchise_id = franchise_id
                                      /\ StockItemRow(s).name = name }
    IN IF found = {} THEN None ELSE Min(found)

\* _maybe_deduct_inventory for one sale line
_maybe_deduct_inventory(inv, led, b, product_id, quantity, type_id, uid, sale_item_id) ==
    LET s == StockItemNamed(BranchRow(b).franchise_id, ProductRow(product_id).name)
    IN IF s = None THEN [inventory |-> inv, ledger |-> led]
       ELSE [inventory |-> AddToInventory(inv, FirstInventory(inv, b, s), b, s, -quantity),
             ledger |-> led \cup { Transaction(_next_id(TransactionIds(led)), b, s, type_id,
                                               quantity * (-1), uid, None,
                                               <<"sale", sale_item_id>>) }]

RECURSIVE DeductAll(_, _, _, _, _, _, _)
DeductAll(inv, led, b, items, k, type_id, uid) ==
    IF k > Len(items) THEN [inventory |-> inv, ledger |-> led]
    ELSE LET d == _maybe_deduct_inventory(inv, led, b, items[k].product_id,
                                          items[k].quantity, type_id, uid, k)
         IN DeductAll(d.inventory, d.ledger, b, items, k + 1, type_id, uid)

\* the status create_sale returns early, "RAISED" when the transaction type
\* lookup raises, or "PASS"
CreateSaleCheck(uid, branch_param, items) ==
    LET gate == token_required(uid, {"BRANCH_OWNER", "MANAGER", "STAFF"})
        result == _ensure_branch_scope(_select_primary_role(uid), branch_param)
        lookup == SalesTransactionTypeLookup("OUT")
    IN IF gate # "PASS" THEN gate
       ELSE IF result.status # "PASS" THEN result.status
       ELSE IF result.branch_id \notin Branches THEN "NOT_FOUND"
       ELSE IF items = <<>> THEN "BAD_REQUEST"
       ELSE IF lookup.raised THEN "RAISED"
       ELSE IF lookup.id = None THEN "INTERNAL_SERVER_ERROR"
       ELSE IF \E k \in 1..Len(items) :
                  \/ items[k].product_id = None
                  \/ items[k].product_id \notin Products
                  \/ ProductRow(items[k].product_id).franchise_id
                        # BranchRow(result.branch_id).franchise_id
                  \/ items[k].quantity <= 0
            THEN "BAD_REQUEST"
       ELSE "PASS"

create_sale(uid, branch_param, items) ==
    LET check == CreateSaleCheck(uid, branch_param, items)
        b == _ensure_branch_scope(_select_primary_role(uid), branch_param).branch_id
        deducted == DeductAll(inventory, ledger, b, items, 1,
                              SalesTransactionTypeLookup("OUT").id, uid)
    IN IF check = "RAISED"
       THEN \* unhandled exception: the session is rolled back with the request
            /\ response' = Response("create_sale", "INTERNAL_SERVER_ERROR")
            /\ UNCHANGED <<inventory, ledger, requests, workers>>
       ELSE IF check # "PASS"
       THEN /\ response' = Response("create_sale", check)
            /\ UNCHANGED <<inventory, ledger, requests, workers>>
       ELSE /\ Cardinality(deducted.ledger) <= MaxLedger
            /\ inventory' = deducted.inventory
            /\ ledger' = deducted.ledger
            /\ response' = Response("create_sale", "CREATED")
            /\ UNCHANGED <<requests, workers>>

\* ------------------------------------------------------------------------
\* Purchase requests (request_routes.py).  The handlers are modelled as
\* callable: they are the routes of request_bp, which create_app does not
\* register itself.
\* ------------------------------------------------------------------------
RequestOf(reqs, rid) == CHOOSE r \in reqs : r.request_id = rid

RECURSIVE SumLen(_)
SumLen(reqs) ==
    IF reqs = {} THEN 0
    ELSE LET r == CHOOSE x \in reqs : TRUE IN Len(r.items) + SumLen(reqs \ {r})

\* what the loop of create_request does with an entry of the payload: the
\* status it returns after db.session.rollback(), the 500 of the exception
\* it lets through, or "PASS" when it adds the item
EntryStatus(entry, franchise_id) ==
    IF entry.stock_item_id = None THEN "BAD_REQUEST"
    ELSE IF \/ entry.stock_item_id \notin StockItems
            \/ StockItemRow(entry.stock_item_id).franchise_id # franchise_id
         THEN "BAD_REQUEST"
    ELSE IF entry.requested_quantity = Missing THEN "BAD_REQUEST"
    ELSE IF Decimal(entry.requested_quantity).raised THEN "BAD_REQUEST"
    ELSE IF Decimal(entry.requested_quantity).is_nan
         THEN "INTERNAL_SERVER_ERROR"   \* the comparison raises
    ELSE IF Decimal(entry.requested_quantity).value <= 0 THEN "BAD_REQUEST"
    ELSE "PASS"

\* a variant of FirstBadEntry that looks at the first entry only
FirstBadEntryHeadOnly(items, k, franchise_id) ==
    IF k > Len(items) \/ EntryStatus(items[k], franchise_id) = "PASS" THEN 0 ELSE k

\* the first entry of the payload that create_request does not add, 0 when
\* it adds them all
RECURSIVE FirstBadEntry(_, _, _)
FirstBadEntry(items, k, franchise_id) ==
    IF k > Len(items) THEN 0
    ELSE IF EntryStatus(items[k], franchise_id) # "PASS" THEN k
         ELSE FirstBadEntry(items, k + 1, franchise_id)

\* the rows of stock_purchase_request_items that create_request adds for
\* the payload
RequestItems(items) ==
    [k \in 1..Len(items) |->
        [stock_item_id |-> items[k].stock_item_id,
         requested_quantity |-> Decimal(items[k].requested_quantity).value]]

\* the status create_request returns early, or "PASS"
CreateRequestCheck(uid, branch_param, items) ==
    LET gate == token_required(uid, {"MANAGER"})
        resolved == _resolve_branch_id(_select_primary_role(uid), branch_param)
    IN IF gate # "PASS" THEN gate
       ELSE IF items = <<>> THEN "BAD_REQUEST"
       ELSE IF resolved.status # "PASS" THEN resolved.status
       ELSE IF resolved.branch_id \notin Branches THEN "NOT_FOUND"
       ELSE IF _get_status_id("PENDING") = None THEN "INTERNAL_SERVER_ERROR"
       ELSE IF FirstBadEntry(items, 1, BranchRow(resolved.branch_id).franchise_id) # 0
            THEN EntryStatus(items[FirstBadEntry(items, 1, BranchRow(resolved.branch_id).franchise_id)],
                             BranchRow(resolved.branch_id).franchise_id)
       ELSE "PASS"

create_request(uid, branch_param, items) ==
    LET check == CreateRequestCheck(uid, branch_param, items)
        b == _resolve_branch_id(_select_primary_role(uid), branch_param).branch_id
        next_request_id == MaxId(RequestIds(requests)) + 1
    IN IF check # "PASS"
       THEN /\ response' = Response("create_request", check)
            /\ UNCHANGED <<inventory, ledger, requests, workers>>
       ELSE /\ SumLen(requests) + Len(items) <= MaxRequestItems
            /\ requests' = requests \cup
                   { [request_id |-> next_request_id, branch_id |-> b,
                      requested_by_user_id |-> uid, approved_by_user_id |-> None,
                      status_id |-> _get_status_id("PENDING"), approved_at |-> NoTime,
                      rejected_at |-> NoTime, note |-> NoText,
                      items |-> RequestItems(items)] }
            /\ response' = Response("create_request", "CREATED")
            /\ UNCHANGED <<inventory, ledger, workers>>

\* a variant of _ensure_request_access without the test of scope FRANCHISE
_ensure_request_access_branch_only(uid, request_obj) ==
    LET role == _select_primary_role(uid)
    IN IF role = NoRole THEN "FORBIDDEN"
       ELSE IF role.scope_type = "BRANCH" /\ request_obj.branch_id # role.scope_id
            THEN "FORBIDDEN"
       ELSE "PASS"

\* _ensure_request_access: "FORBIDDEN" or "PASS"
_ensure_request_access(uid, request_obj) ==
    LET role == _select_primary_role(uid)
    IN IF role = NoRole THEN "FORBIDDEN"
       ELSE IF role.scope_type = "BRANCH" /\ request_obj.branch_id # role.scope_id
            THEN "FORBIDDEN"
       ELSE IF role.scope_type = "FRANCHISE"
               /\ (\/ request_obj.branch_id \notin Branches
                   \/ BranchRow(request_obj.branch_id).franchise_id # role.scope_id)
            THEN "FORBIDDEN"
       ELSE "PASS"

\* the status approve_request returns before it writes, or "PASS"
ApproveRequestCheck(reqs, uid, rid) ==
    LET gate == token_required(uid, {"BRANCH_OWNER"})
    IN IF gate # "PASS" THEN gate
       ELSE IF rid \notin RequestIds(reqs) THEN "NOT_FOUND"
       ELSE IF _ensure_request_access(uid, RequestOf(reqs, rid)) # "PASS" THEN "FORBIDDEN"
       ELSE IF _get_status_id("PENDING") = None \/ _get_status_id("APPROVED") = None
            THEN "INTERNAL_SERVER_ERROR"
       ELSE IF RequestOf(reqs, rid).status_id # _get_status_id("PENDING") THEN "BAD_REQUEST"
       ELSE IF RequestOf(reqs, rid).items = <<>> THEN "BAD_REQUEST"
       ELSE IF RequestOf(reqs, rid).branch_id \notin Branches THEN "NOT_FOUND"
       ELSE IF TransactionTypeId("IN") = None THEN "INTERNAL_SERVER_ERROR"
       ELSE "PASS"

\* a variant of ApproveItems that posts the first item only
ApproveItemsFirstOnly(inv, led, items, k, next_transaction_id, b, uid, rid) ==
    LET s == items[1].stock_item_id
        q == items[1].requested_quantity
        tid == NextFree(TransactionIds(led), next_transaction_id)
    IN [inventory |-> AddToInventory(inv, FirstInventory(inv, b, s), b, s, q),
        ledger |-> led \cup { Transaction(tid, b, s, TransactionTypeId("IN"), q,
                                          uid, uid, <<"request", rid>>) }]

\* the loop of approve_request from item k on: inv is the session's view of
\* branch_inventories, led the ledger with the rows added so far
RECURSIVE ApproveItems(_, _, _, _, _, _, _, _)
ApproveItems(inv, led, items, k, next_transaction_id, b, uid, rid) ==
    IF k > Len(items) THEN [inventory |-> inv, ledger |-> led]
    ELSE LET s == items[k].stock_item_id
             q == items[k].requested_quantity
             tid == NextFree(TransactionIds(led), next_transaction_id)
         IN ApproveItems(AddToInventory(inv, FirstInventory(inv, b, s), b, s, q),
                         led \cup { Transaction(tid, b, s, TransactionTypeId("IN"), q,
                                                uid, uid, <<"request", rid>>) },
                         items, k + 1, tid + 1, b, uid, rid)

\* a variant of Decide that changes the status column only
DecideStatusOnly(reqs, rid, status_id, uid, at) ==
    { IF r.request_id = rid THEN [r EXCEPT !.status_id = status_id] ELSE r : r \in reqs }

\* record.status_id = ...; record.approved_by_user_id = ...; record.approved_at = ...
\* flushed as an UPDATE of these three columns of the row rid
Decide(reqs, rid, status_id, uid, at) ==
    { IF r.request_id = rid
      THEN [r EXCEPT !.status_id = status_id, !.approved_by_user_id = uid, !.approved_at = at]
      ELSE r : r \in reqs }

approve_request(uid, rid) ==
    LET check == ApproveRequestCheck(requests, uid, rid)
        record == RequestOf(requests, rid)
        posted == ApproveItems(inventory, ledger, record.items, 1,
                               MaxId(TransactionIds(ledger)) + 1, record.branch_id, uid, rid)
    IN IF check # "PASS"
       THEN /\ response' = Response("approve_request", check)
            /\ UNCHANGED <<inventory, ledger, requests, workers>>
       ELSE /\ Cardinality(ledger) + Len(record.items) <= MaxLedger
            /\ inventory' = posted.inventory
            /\ ledger' = posted.ledger
            /\ requests' = Decide(requests, rid, _get_status_id("APPROVED"), uid, utcnow)
            /\ response' = Response("approve_request", "OK")
            /\ UNCHANGED workers

\* a variant of RejectRequestCheck without the test of the request's status
RejectRequestCheckAnyStatus(reqs, uid, rid) ==
    LET gate == token_required(uid, {"BRANCH_OWNER"})
    IN IF gate # "PASS" THEN gate
       ELSE IF rid \notin RequestIds(reqs) THEN "NOT_FOUND"
       ELSE IF _ensure_request_access(uid, RequestOf(reqs, rid)) # "PASS" THEN "FORBIDDEN"
       ELSE "PASS"

\* the status reject_request returns before it writes, or "PASS"
RejectRequestCheck(reqs, uid, rid) ==
    LET gate == token_required(uid, {"BRANCH_OWNER"})
    IN IF gate # "PASS" THEN gate
       ELSE IF rid \notin RequestIds(reqs) THEN "NOT_FOUND"
       ELSE IF _ensure_request_access(uid, RequestOf(reqs, rid)) # "PASS" THEN "FORBIDDEN"
       ELSE IF _get_status_id("PENDING") = None \/ _get_status_id("REJECTED") = None
            THEN "INTERNAL_SERVER_ERROR"
       ELSE IF RequestOf(reqs, rid).status_id # _get_status_id("PENDING") THEN "BAD_REQUEST"
       ELSE "PASS"

\* a variant of reject_request that posts the items of the request it rejects
reject_request_posting(uid, rid, notes) ==
    LET check == RejectRequestCheck(requests, uid, rid)
        record == RequestOf(requests, rid)
        posted == ApproveItems(inventory, ledger, record.items, 1,
                               MaxId(TransactionIds(ledger)) + 1, record.branch_id, uid, rid)
    IN IF check # "PASS"
       THEN /\ response' = Response("reject_request", check)
            /\ UNCHANGED <<inventory, ledger, requests, workers>>
       ELSE /\ Cardinality(ledger) + Len(record.items) <= MaxLedger
            /\ inventory' = posted.inventory
            /\ ledger' = posted.ledger
            /\ requests' = Decide(requests, rid, _get_status_id("REJECTED"), uid, utcnow)
            /\ response' = Response("reject_request", "OK")
            /\ UNCHANGED workers

\* notes is the "notes" of the body of the call, which the handler does not
\* read
reject_request(uid, rid, notes) ==
    LET check == RejectRequestCheck(requests, uid, rid)
    IN IF check # "PASS"
       THEN /\ response' = Response("reject_request", check)
            /\ UNCHANGED <<inventory, ledger, requests, workers>>
       ELSE /\ requests' = Decide(requests, rid, _get_status_id("REJECTED"), uid, utcnow)
            /\ response' = Response("reject_request", "OK")
            /\ UNCHANGED <<inventory, ledger, workers>>

\* ------------------------------------------------------------------------
\* Inputs of the request and sale calls
\* ------------------------------------------------------------------------
SeqsUpTo(S, n) == UNION { [1..k -> S] : k \in 0..n }

RequestEntry(s, q) == [stock_item_id |-> s, requested_quantity |-> q]

\* an entry of the "items" of a payload
PayloadEntry(s, quantity_raw) == [stock_item_id |-> s, requested_quantity |-> quantity_raw]

\* payloads that create_request accepts, and payloads it refuses: no item,
\* an unknown stock item in the first entry, a quantity of zero, no
\* quantity or one that is no number in the second entry
RequestPayloads ==
    { <<PayloadEntry(1, Number(3))>>,
      <<PayloadEntry(1, Number(3)), PayloadEntry(2, Number(5))>>,
      <<PayloadEntry(1, Number(3)), PayloadEntry(1, Number(3))>>,
      <<>>,
      <<PayloadEntry(4, Number(3))>>,
      <<PayloadEntry(4, Number(3)), PayloadEntry(1, Number(3))>>,
      <<PayloadEntry(1, Number(3)), PayloadEntry(1, Number(0))>>,
      <<PayloadEntry(1, Number(3)), PayloadEntry(1, Missing)>>,
      <<PayloadEntry(1, Number(3)), PayloadEntry(1, NotNumeric)>>,
      <<PayloadEntry(1, Number(3)), PayloadEntry(1, NaN)>> }
RequestIdParams == 1..(MaxRequestItems + 1)

\* the notes a reject call is given
NotesParams == {"over budget", "duplicate"}

SaleEntries == { [product_id |-> p, quantity |-> q] : p \in {1, 3}, q \in {1} }
SalePayloads == SeqsUpTo(SaleEntries, 1)

\* ------------------------------------------------------------------------
\* Concurrent calls.  Each call runs in a session of its own: what it has
\* read stays in the session as it was read, what it writes is flushed in
\* one transaction and becomes visible to the others at db.session.commit().
\* The engine is the default one (sqlite:///relay.db): a read sees what is
\* committed, and the first flush holds the write lock until the commit, so
\* the writes of a call land together.  A step of a call is one of its reads,
\* or its writes with the commit.
\* ------------------------------------------------------------------------
Workers == {1, 2}

Idle ==
    [pc |-> "idle", op |-> "none", uid |-> None, rid |-> None, b |-> None, s |-> None,
     delta |-> 0, type_id |-> None, record |-> NoRecord, items |-> <<>>,
     next_transaction_id |-> None, status |-> "NONE"]

\* a call that has returned
Done(op, uid, rid, status) ==
    [Idle EXCEPT !.pc = "done", !.op = op, !.uid = uid, !.rid = rid, !.status = status]

\* each worker takes one call
Free(w) == workers[w].pc = "idle"

\* create_transaction up to the SELECT of _get_or_create_inventory.  When the
\* row is absent it is inserted and flushed at once and the call runs to its
\* commit under the write lock.
TxnBegin(w, uid, stock_item_id, code, quantity_raw) ==
    LET check == CreateTransactionCheck(uid, None, stock_item_id, code, quantity_raw)
        b == _allowed_branch_id(_select_primary_role(uid), None).branch_id
        record == FirstInventory(inventory, b, stock_item_id)
        delta == NormalizeQuantity(code, Decimal(quantity_raw).value)
        applied == _apply_transaction(inventory, ledger, record, b, stock_item_id, delta,
                                      TransactionTypeId(code), uid, NoNote)
    IN /\ Free(w)
       /\ IF check # "PASS"
          THEN /\ workers' = [workers EXCEPT ![w] = Done("create_transaction", uid, None, check)]
               /\ response' = Response("create_transaction", check)
               /\ UNCHANGED <<inventory, ledger, requests>>
          ELSE IF record = NoRecord
          THEN /\ Cardinality(ledger) < MaxLedger
               /\ inventory' = applied.inventory
               /\ ledger' = applied.ledger
               /\ workers' = [workers EXCEPT ![w] = Done("create_transaction", uid, None, "CREATED")]
               /\ response' = Response("create_transaction", "CREATED")
               /\ UNCHANGED requests
          ELSE /\ workers' = [workers EXCEPT ![w] =
                      [Idle EXCEPT !.pc = "txn_read", !.op = "create_transaction", !.uid = uid,
                                   !.b = b, !.s = stock_item_id, !.delta = delta,
                                   !.type_id = TransactionTypeId(code), !.record = record]]
               /\ UNCHANGED <<inventory, ledger, requests, response>>

\* the rest of _apply_transaction on the record read before, and the commit
TxnCommit(w) ==
    LET me == workers[w]
        applied == _apply_transaction(inventory, ledger, me.record, me.b, me.s, me.delta,
                                      me.type_id, me.uid, NoNote)
    IN /\ me.pc = "txn_read"
       /\ Cardinality(ledger) < MaxLedger
       /\ inventory' = applied.inventory
       /\ ledger' = applied.ledger
       /\ workers' = [workers EXCEPT ![w] = Done("create_transaction", me.uid, None, "CREATED")]
       /\ response' = Response("create_transaction", "CREATED")
       /\ UNCHANGED requests

\* approve_request up to next_transaction_id: the request and its items are
\* loaded and checked
ApproveLoad(w, uid, rid) ==
    LET check == ApproveRequestCheck(requests, uid, rid)
        record == RequestOf(requests, rid)
    IN /\ Free(w)
       /\ IF check # "PASS"
          THEN /\ workers' = [workers EXCEPT ![w] = Done("approve_request", uid, rid, check)]
               /\ response' = Response("approve_request", check)
          ELSE /\ workers' = [workers EXCEPT ![w] =
                      [Idle EXCEPT !.pc = "approve_loaded", !.op = "approve_request",
                                   !.uid = uid, !.rid = rid, !.b = record.branch_id,
                                   !.items = record.items,
                                   !.next_transaction_id = MaxId(TransactionIds(ledger)) + 1]]
               /\ UNCHANGED response
       /\ UNCHANGED <<inventory, ledger, requests>>

\* the writes of approve_request and the commit, on the session's view inv of
\* branch_inventories
ApproveWrite(w, inv) ==
    LET me == workers[w]
        posted == ApproveItems(inv, ledger, me.items, 1, me.next_transaction_id,
                               me.b, me.uid, me.rid)
    IN /\ Cardinality(ledger) + Len(me.items) <= MaxLedger
       /\ inventory' = posted.inventory
       /\ ledger' = posted.ledger
       /\ requests' = Decide(requests, me.rid, _get_status_id("APPROVED"), me.uid, utcnow)
       /\ workers' = [workers EXCEPT ![w] = Done("approve_request", me.uid, me.rid, "OK")]
       /\ response' = Response("approve_request", "OK")

\* the SELECT of _get_or_create_inventory for the first item.  When the row
\* is absent it is inserted and flushed at once and the call runs to its
\* commit under the write lock.
ApproveRead(w) ==
    LET me == workers[w]
        record == FirstInventory(inventory, me.b, me.items[1].stock_item_id)
    IN /\ me.pc = "approve_loaded"
       /\ IF record = NoRecord
          THEN ApproveWrite(w, inventory)
          ELSE /\ workers' = [workers EXCEPT ![w] =
                      [me EXCEPT !.pc = "approve_read", !.record = record]]
               /\ UNCHANGED <<inventory, ledger, requests, response>>

\* the loop of approve_request on the record read before, the status change
\* and the commit
ApproveCommit(w) ==
    /\ workers[w].pc = "approve_read"
    /\ ApproveWrite(w, SessionInventory(inventory, workers[w].record))

\* reject_request up to its status check
RejectLoad(w, uid, rid) ==
    LET check == RejectRequestCheck(requests, uid, rid)
    IN /\ Free(w)
       /\ IF check # "PASS"
          THEN /\ workers' = [workers EXCEPT ![w] = Done("reject_request", uid, rid, check)]
               /\ response' = Response("reject_request", check)
          ELSE /\ workers' = [workers EXCEPT ![w] =
                      [Idle EXCEPT !.pc = "reject_loaded", !.op = "reject_request",
                                   !.uid = uid, !.rid = rid]]
               /\ UNCHANGED response
       /\ UNCHANGED <<inventory, ledger, requests>>

\* the status change of reject_request and the commit
RejectCommit(w) ==
    LET me == workers[w]
    IN /\ me.pc = "reject_loaded"
       /\ requests' = Decide(requests, me.rid, _get_status_id("REJECTED"), me.uid, utcnow)
       /\ workers' = [workers EXCEPT ![w] = Done("reject_request", me.uid, me.rid, "OK")]
       /\ response' = Response("reject_request", "OK")
       /\ UNCHANGED <<inventory, ledger>>

\* a call that raises before its commit (a store error, an abandoned
\* request): the session is removed with the request and rolled back
Abort(w) ==
    LET me == workers[w]
    IN /\ me.pc \in {"txn_read", "approve_loaded", "approve_read", "reject_loaded"}
       /\ workers' = [workers EXCEPT ![w] = Done(me.op, me.uid, me.rid, "INTERNAL_SERVER_ERROR")]
       /\ response' = Response(me.op, "INTERNAL_SERVER_ERROR")
       /\ UNCHANGED <<inventory, ledger, requests>>

\* ------------------------------------------------------------------------
\* The write lock.  SQLite has one write lock for the whole database file:
\* the first flush of a call takes it and the commit releases it.  A call
\* that flushes while another call holds the lock waits, and raises
\* OperationalError ("database is locked") when the wait times out.
\* ------------------------------------------------------------------------
\* create_transaction up to the SELECT of _get_or_create_inventory
TxnRead(w, uid, stock_item_id, code, quantity_raw) ==
    LET check == CreateTransactionCheck(uid, None, stock_item_id, code, quantity_raw)
        b == _allowed_branch_id(_select_primary_role(uid), None).branch_id
    IN /\ Free(w)
       /\ IF check # "PASS"
          THEN /\ workers' = [workers EXCEPT ![w] = Done("create_transaction", uid, None, check)]
               /\ response' = Response("create_transaction", check)
          ELSE /\ workers' = [workers EXCEPT ![w] =
                      [Idle EXCEPT !.pc = "txn_read", !.op = "create_transaction", !.uid = uid,
                                   !.b = b, !.s = stock_item_id,
                                   !.delta = NormalizeQuantity(code, Decimal(quantity_raw).value),
                                   !.type_id = TransactionTypeId(code),
                                   !.record = FirstInventory(inventory, b, stock_item_id)]]
               /\ UNCHANGED response
       /\ UNCHANGED <<inventory, ledger, requests>>

\* another call holds the write lock
LockedOut(w) == \E o \in Workers \ {w} : workers[o].pc = "txn_flushed"

\* the first flush of the call: the INSERT of _get_or_create_inventory, or
\* the autoflush of record.quantity at the query of _next_id
TxnFlush(w) ==
    /\ workers[w].pc = "txn_read"
    /\ ~LockedOut(w)
    /\ workers' = [workers EXCEPT ![w].pc = "txn_flushed"]
    /\ UNCHANGED <<inventory, ledger, requests, response>>

\* the wait for the lock times out: the flush raises and the call ends in 500
TxnLocked(w) ==
    /\ workers[w].pc = "txn_read"
    /\ LockedOut(w)
    /\ workers' = [workers EXCEPT ![w] =
            Done("create_transaction", workers[w].uid, None, "INTERNAL_SERVER_ERROR")]
    /\ response' = Response("create_transaction", "INTERNAL_SERVER_ERROR")
    /\ UNCHANGED <<inventory, ledger, requests>>

\* the rest of _apply_transaction under the lock, and the commit
TxnCommitFlushed(w) ==
    LET me == workers[w]
        applied == _apply_transaction(inventory, ledger, me.record, me.b, me.s, me.delta,
                                      me.type_id, me.uid, NoNote)
    IN /\ me.pc = "txn_flushed"
       /\ Cardinality(ledger) < MaxLedger
       /\ inventory' = applied.inventory
       /\ ledger' = applied.ledger
       /\ workers' = [workers EXCEPT ![w] = Done("create_transaction", me.uid, None, "CREATED")]
       /\ response' = Response("create_transaction", "CREATED")
       /\ UNCHANGED requests

\* the query of _next_id in _get_or_create_inventory, by a call whose SELECT
\* found no row of the pair: the row to insert gets the key read now
CreateNextId(w) ==
    LET me == workers[w]
    IN /\ me.pc = "txn_read"
       /\ me.record = NoRecord
       /\ workers' = [workers EXCEPT ![w] =
               [me EXCEPT !.pc = "txn_created",
                          !.record = [branch_inventory_id |-> _next_id(InventoryIds(inventory)),
                                      branch_id |-> me.b, stock_item_id |-> me.s,
                                      quantity |-> 0]]]
       /\ UNCHANGED <<inventory, ledger, requests, response>>

\* db.session.flush() of _get_or_create_inventory: the INSERT takes the
\* write lock, and raises IntegrityError when a row with the key has been
\* committed meanwhile; no handler catches it
CreateFlush(w) ==
    LET me == workers[w]
    IN /\ me.pc = "txn_created"
       /\ ~LockedOut(w)
       /\ IF me.record.branch_inventory_id \in InventoryIds(inventory)
          THEN /\ workers' = [workers EXCEPT ![w] =
                      Done("create_transaction", me.uid, None, "INTERNAL_SERVER_ERROR")]
               /\ response' = Response("create_transaction", "INTERNAL_SERVER_ERROR")
          ELSE /\ workers' = [workers EXCEPT ![w].pc = "txn_flushed"]
               /\ UNCHANGED response
       /\ UNCHANGED <<inventory, ledger, requests>>

\* ------------------------------------------------------------------------
\* Token codec (utils/security.py)
\* ------------------------------------------------------------------------
\* The clock counts ticks of half a second: datetime.now() carries a fraction
\* of a second, the "exp" of a payload is a whole number of seconds.
TicksPerSecond == 2
SecondsPerMinute == 60
TicksPerMinute == SecondsPerMinute * TicksPerSecond

\* the instants at which the clock is read
ClockValues == { m * TicksPerMinute + k : m \in {0, 1}, k \in 0..MaxTick }

\* config JWT_SECRET, else the environment's, else the fallback
_get_jwt_secret == "dev-secret-key"

\* A segment of a token is a text.  The model keeps of it: whether all its
\* characters are ASCII, whether it is a base64url text, whether it is the
\* text _b64url_encode writes for its bytes or another spelling that decodes
\* to the same bytes (b64decode drops characters outside the alphabet), and
\* the bytes it stands for.
_b64url_encode(data) == [ascii |-> TRUE, b64 |-> TRUE, canonical |-> TRUE, data |-> data]

\* base64.urlsafe_b64decode raises ValueError on a text that is not ASCII or
\* not base64
_b64url_decode(segment) ==
    [raised |-> ~(segment.ascii /\ segment.b64), bytes |-> segment.data]

\* json.dumps of a dict
json_dumps(value) == [json |-> "object", value |-> value]

\* json.loads: raises on bytes that are not JSON; a JSON text that is not an
\* object gives a value without the methods of a dict
json_loads(bytes) ==
    [raised |-> bytes.json = "invalid", is_dict |-> bytes.json = "object", value |-> bytes.value]

\* HMAC-SHA256 as an injective function of the key and the message
hmac_new(key, msg) == [key |-> key, msg |-> msg]

\* f"{header_segment}.{payload_segment}": a segment holds no dot
signing_input(header_segment, payload_segment) == <<header_segment, payload_segment>>

header == [alg |-> "HS256", typ |-> "JWT"]

\* the dict of a payload; exp_number is isinstance(exp, (int, float)), and a
\* sub that is not an int is None
Payload(sub, exp_number, exp, typ) ==
    [sub |-> sub, exp_number |-> exp_number, exp |-> exp, typ |-> typ]

NoPayload == Payload(None, FALSE, 0, "NONE")

\* a token: the number of its dot-separated parts and, of a token of three
\* parts, the parts
Token(header_segment, payload_segment, signature_segment) ==
    [parts |-> 3, header |-> header_segment, payload |-> payload_segment,
     signature |-> signature_segment]

\* the header, payload and signature segments a holder of key writes
SignedToken(key, payload_bytes) ==
    LET header_segment == _b64url_encode(json_dumps(header))
        payload_segment == _b64url_encode(payload_bytes)
        signature == hmac_new(key, signing_input(header_segment, payload_segment))
    IN Token(header_segment, payload_segment, _b64url_encode(signature))

\* no Authorization header, or one that is not a bearer header
NoToken == [SignedToken("none", json_dumps(NoPayload)) EXCEPT !.parts = 0]

\* flask.g of a request: what wrapper binds before it calls the operation
Context(current_user, current_role, current_user_type) ==
    [current_user |-> current_user, current_role |-> current_role,
     current_user_type |-> current_user_type]

NoContext == Context(None, NoRole, "NONE")

\* a request: the token it carries, the allowed_roles of its route and the
\* clock time at which it is served
Request(token, allowed_roles, at) ==
    [token |-> token, allowed_roles |-> allowed_roles, at |-> at]

NoRequest == Request(NoToken, {}, 0)

\* int(expires_at.timestamp()) of generate_token
ExpiresAt(clock, expires_in_minutes) ==
    (clock + expires_in_minutes * TicksPerMinute) \div TicksPerSecond

\* the token generate_token returns when the clock reads clock
GeneratedToken(user_id, user_type, expires_in_minutes, clock) ==
    SignedToken(_get_jwt_secret,
                json_dumps(Payload(user_id, TRUE, ExpiresAt(clock, expires_in_minutes),
                                   user_type)))

NoIssue ==
    [token |-> NoToken, user_id |-> None, user_type |-> "NONE",
     expires_in_minutes |-> 0, issued_at |-> 0]

\* generate_token, called by a request that carries no token: ValueError for
\* a user_type that is neither "franchisor" nor "user"
generate_token(user_id, user_type, expires_in_minutes) ==
    /\ IF user_type \notin {"franchisor", "user"}
       THEN /\ response' = Response("generate_token", "ValueError")
            /\ UNCHANGED issued
       ELSE /\ response' = Response("generate_token", "TOKEN")
            /\ issued' = [token |-> GeneratedToken(user_id, user_type,
                                                   expires_in_minutes, now),
                          user_id |-> user_id, user_type |-> user_type,
                          expires_in_minutes |-> expires_in_minutes, issued_at |-> now]
    /\ g' = NoContext
    /\ request' = NoRequest
    /\ UNCHANGED <<store, principals, now, resolution>>

Decoded(outcome, payload) == [outcome |-> outcome, payload |-> payload]

\* a variant of _decode_token that refuses a token from the second of its
\* expiry on
_decode_token_early(token, clock) ==
    LET expected_signature ==
            hmac_new(_get_jwt_secret, signing_input(token.header, token.payload))
        provided_signature == _b64url_decode(token.signature)
        payload_bytes == _b64url_decode(token.payload)
        payload == json_loads(payload_bytes.bytes)
    IN IF token.parts = 0 THEN Decoded("None", NoPayload)
       ELSE IF token.parts # 3 THEN Decoded("None", NoPayload)
       ELSE IF ~token.header.ascii \/ ~token.payload.ascii
            THEN Decoded("raise", NoPayload)
       ELSE IF provided_signature.raised THEN Decoded("None", NoPayload)
       ELSE IF expected_signature # provided_signature.bytes THEN Decoded("None", NoPayload)
       ELSE IF payload_bytes.raised \/ payload.raised THEN Decoded("None", NoPayload)
       ELSE IF ~payload.is_dict THEN Decoded("raise", NoPayload)
       ELSE IF payload.value.exp_number /\ clock >= payload.value.exp * TicksPerSecond
            THEN Decoded("None", NoPayload)
       ELSE Decoded("payload", payload.value)

\* _decode_token when the clock reads clock: the payload, None, or an
\* exception that no handler catches (UnicodeEncodeError of line 97,
\* AttributeError of line 114)
_decode_token(token, clock) ==
    LET expected_signature ==
            hmac_new(_get_jwt_secret, signing_input(token.header, token.payload))
        provided_signature == _b64url_decode(token.signature)
        payload_bytes == _b64url_decode(token.payload)
        payload == json_loads(payload_bytes.bytes)
    IN IF token.parts = 0 THEN Decoded("None", NoPayload)
       ELSE IF token.parts # 3 THEN Decoded("None", NoPayload)
       ELSE IF ~token.header.ascii \/ ~token.payload.ascii
            THEN Decoded("raise", NoPayload)
       ELSE IF provided_signature.raised THEN Decoded("None", NoPayload)
       ELSE IF expected_signature # provided_signature.bytes THEN Decoded("None", NoPayload)
       ELSE IF payload_bytes.raised \/ payload.raised THEN Decoded("None", NoPayload)
       ELSE IF ~payload.is_dict THEN Decoded("raise", NoPayload)
       ELSE IF payload.value.exp_number /\ clock > payload.value.exp * TicksPerSecond
            THEN Decoded("None", NoPayload)
       ELSE Decoded("payload", payload.value)

Principal(raised, principal, primary_role, role_name, user_type) ==
    [raised |-> raised, principal |-> principal, primary_role |-> primary_role,
     role_name |-> role_name, user_type |-> user_type]

NoPrincipal == Principal(FALSE, None, NoRole, "NONE", "NONE")

\* _load_principal_from_token: (principal, primary_role, role_name,
\* user_type), all None when the token or its subject is refused
_load_principal_from_token(token, clock) ==
    LET decoded == _decode_token(token, clock)
        user_id == decoded.payload.sub
        user_type == decoded.payload.typ
    IN IF decoded.outcome = "raise" THEN [NoPrincipal EXCEPT !.raised = TRUE]
       ELSE IF decoded.outcome = "None" THEN NoPrincipal
       ELSE IF user_id = None \/ user_type \notin {"franchisor", "user"} THEN NoPrincipal
       ELSE IF user_type = "franchisor"
            THEN IF user_id \notin Franchisors THEN NoPrincipal
                 ELSE Principal(FALSE, user_id, RoleStub, "FRANCHISOR", user_type)
       ELSE IF user_id \notin Users THEN NoPrincipal
       ELSE Principal(FALSE, user_id, _select_primary_role(user_id),
                      CurrentRoleName(user_id), user_type)

\* a variant of WrapperStatus without the active check
WrapperStatusAnyUser(loaded, allowed_set) ==
    IF loaded.raised THEN "INTERNAL_SERVER_ERROR"
    ELSE IF loaded.principal = None THEN "UNAUTHORIZED"
    ELSE IF allowed_set # {} /\ ~is_allowed(loaded.role_name, allowed_set) THEN "FORBIDDEN"
    ELSE "OK"

\* what wrapper answers: the status it returns itself, or "OK" when it calls
\* the operation it wraps
WrapperStatus(loaded, allowed_set) ==
    IF loaded.raised THEN "INTERNAL_SERVER_ERROR"
    ELSE IF loaded.principal = None THEN "UNAUTHORIZED"
    ELSE IF loaded.user_type = "user" /\ ~users[loaded.principal].is_active THEN "FORBIDDEN"
    ELSE IF allowed_set # {} /\ ~is_allowed(loaded.role_name, allowed_set) THEN "FORBIDDEN"
    ELSE "OK"

\* wrapper of token_required(allowed_roles) around an operation, on a request
\* that carries token
wrapper(token, allowed_roles) ==
    LET loaded == _load_principal_from_token(token, now)
        status == WrapperStatus(loaded, allowed_roles)
    IN /\ response' = Response("wrapper", status)
       /\ g' = IF status = "OK"
               THEN Context(loaded.principal, loaded.primary_role, loaded.user_type)
               ELSE NoContext
       /\ request' = Request(token, allowed_roles, now)
       /\ UNCHANGED <<store, principals, now, issued, resolution>>

\* the clock moves on
Tick(t) ==
    /\ t > now
    /\ now' = t
    /\ UNCHANGED <<store, principals, response, issued, g, request, resolution>>

\* the subjects a token is asked for: the owner (and the franchisor) 1, the
\* staff member 3 and the applicant 4; 5 is in no table
SubjectParams == {1, 3, 4}
UserTypeParams == {"franchisor", "user", "admin"}
ExpiresInParams == {0, 1}

\* the payload segments a caller can send in place of one
PayloadVariants(segment) ==
    LET value == segment.data.value
    IN { _b64url_encode(json_dumps([value EXCEPT !.sub = u])) : u \in {1, 5} \ {value.sub} }
       \cup { _b64url_encode(json_dumps([value EXCEPT !.typ = k])) :
                k \in {"franchisor", "user"} \ {value.typ} }
       \cup { _b64url_encode(json_dumps([value EXCEPT !.exp = value.exp + SecondsPerMinute])),
              [segment EXCEPT !.canonical = FALSE],
              [segment EXCEPT !.ascii = FALSE],
              [segment EXCEPT !.b64 = FALSE] }

\* the tokens a caller can make of a token without the secret
Tampered(token) ==
    { [token EXCEPT !.payload = q] : q \in PayloadVariants(token.payload) }
    \cup { [token EXCEPT !.parts = 2],
           [token EXCEPT !.header.ascii = FALSE],
           [token EXCEPT !.signature.b64 = FALSE],
           [token EXCEPT !.signature.data.key = "guess"] }

\* tokens with a payload generate_token does not write, signed with the
\* secret
OddTokens ==
    { SignedToken(_get_jwt_secret, [json |-> "invalid", value |-> NoPayload]),
      SignedToken(_get_jwt_secret, [json |-> "array", value |-> NoPayload]),
      SignedToken(_get_jwt_secret, json_dumps(Payload(3, FALSE, 0, "user"))),
      SignedToken(_get_jwt_secret, json_dumps(Payload(None, TRUE, SecondsPerMinute, "user"))),
      SignedToken(_get_jwt_secret, json_dumps(Payload(1, TRUE, SecondsPerMinute, "admin"))) }

\* the tokens a request can carry
Presented ==
    {NoToken} \cup OddTokens
    \cup (IF issued = NoIssue THEN {} ELSE {issued.token} \cup Tampered(issued.token))

\* allowed_roles of token_required: none given, and those of
\* inventory_routes.list_inventory and of the dashboard routes
AllowedRoleSets ==
    { {}, {"BRANCH_OWNER", "MANAGER", "STAFF"}, {"SYSTEM_ADMIN"} }

\* users after register_franchisee has added the applicant 4, who holds no
\* role until the application is approved
RegisteredUsers(staff_active) ==
    [u \in {1, 2, 3, 4} |->
        User(u, UserEmail(u), UserPhone(u), hash_password(UserPassword(u)),
             IF u = 3 THEN staff_active ELSE TRUE)]

\* ------------------------------------------------------------------------
\* Branch resolvers applied to a caller (request_routes.py,
\* inventory_routes.py, sales_routes.py, branch_routes.py)
\* ------------------------------------------------------------------------
\* branch_routes._branch_scope (branch_bp is not registered by create_app)
_branch_scope(uid) ==
    LET role == _select_primary_role(uid)
    IN IF role = NoRole \/ role.scope_type # "BRANCH" THEN Refused("FORBIDDEN")
       ELSE IF role.scope_id \notin Branches THEN Refused("NOT_FOUND")
       ELSE IF RoleName(role.role_id) = "MANAGER"
               /\ BranchRow(role.scope_id).manager_user_id # uid
            THEN Refused("FORBIDDEN")
       ELSE IF BranchRow(role.scope_id).status_id # 1 THEN Refused("BAD_REQUEST")
       ELSE Resolved(role.scope_id)

Resolution(resolver, uid, explicit_branch_id, result) ==
    [resolver |-> resolver, uid |-> uid, explicit_branch_id |-> explicit_branch_id,
     result |-> result]

NoResolution == Resolution("none", None, None, Refused("NONE"))

\* the resolvers that take the branch id a request names
BranchResolvers == {"_resolve_branch_id", "_allowed_branch_id", "_ensure_branch_scope"}

\* what the resolver of that name returns when g.current_role is role
ResolverResultOf(resolver, role, explicit_branch_id) ==
    CASE resolver = "_resolve_branch_id" -> _resolve_branch_id(role, explicit_branch_id)
      [] resolver = "_allowed_branch_id" -> _allowed_branch_id(role, explicit_branch_id)
      [] OTHER -> _ensure_branch_scope(role, explicit_branch_id)

\* what the resolver of that name returns to the user uid, whom the gate
\* has admitted with g.current_role = _select_primary_role(uid)
ResolverResult(resolver, uid, explicit_branch_id) ==
    IF resolver \in BranchResolvers
    THEN ResolverResultOf(resolver, _select_primary_role(uid), explicit_branch_id)
    ELSE _branch_scope(uid)

\* a request of the user uid reaches a resolver
ResolveBranch(resolver, uid, explicit_branch_id) ==
    /\ token_required(uid, {}) = "PASS"
    /\ _select_primary_role(uid) # NoRole
    /\ resolver = "_branch_scope" => explicit_branch_id = None
    /\ resolution' = Resolution(resolver, uid, explicit_branch_id,
                                ResolverResult(resolver, uid, explicit_branch_id))
    /\ g' = Context(uid, _select_primary_role(uid), "user")
    /\ response' = Response(resolver, ResolverResult(resolver, uid, explicit_branch_id).status)
    /\ UNCHANGED <<store, principals, now, issued, request>>

\* a request of the franchisor franchisor_id, whom the gate has admitted
\* with g.current_role = role_stub, reaches a resolver
ResolveBranchFranchisor(resolver, franchisor_id, explicit_branch_id) ==
    /\ franchisor_id \in Franchisors
    /\ resolver \in BranchResolvers
    /\ resolution' = Resolution(resolver, franchisor_id, explicit_branch_id,
                                ResolverResultOf(resolver, RoleStub, explicit_branch_id))
    /\ g' = Context(franchisor_id, RoleStub, "franchisor")
    /\ response' = Response(resolver,
                            ResolverResultOf(resolver, RoleStub, explicit_branch_id).status)
    /\ UNCHANGED <<store, principals, now, issued, request>>

\* branches after approve_application has opened branch 2 of franchise 2 for
\* the applicant 4; manager_user_id of branch 1 names manager
OpenedBranches(manager) ==
    [b \in {1, 2} |->
        IF b = 1
        THEN Branch(1, 1, <<"RELAY-VD", None>>, 1, 1, manager)
        ELSE Branch(2, 2, <<"BR", 1>>, 2, 4, None)]

Assignment(user_id, role_id, scope_type, scope_id) ==
    [user_id |-> user_id, role_id |-> role_id, scope_type |-> scope_type,
     scope_id |-> scope_id]

\* the assignments the user 4 can hold beside those of the seed; the roles
\* of one user differ, so that ORDER BY role_id decides the first row
AssignmentTables ==
    { {Assignment(4, ROLE_MANAGER, "FRANCHISE", 1)},
      {Assignment(4, ROLE_MANAGER, "FRANCHISE", 2)},
      {Assignment(4, ROLE_MANAGER, "BRANCH", 1)},
      {Assignment(4, ROLE_BRANCH_OWNER, "BRANCH", 2)},
      {Assignment(4, ROLE_BRANCH_OWNER, "BRANCH", 2), Assignment(4, ROLE_STAFF, "BRANCH", 1)},
      {Assignment(4, ROLE_BRANCH_OWNER, "FRANCHISE", 2), Assignment(4, ROLE_STAFF, "BRANCH", 1)} }

ExplicitBranchParams == {None, 1, 2, 3}

\* ------------------------------------------------------------------------
\* The gate of the expense routes (utils/auth.py)
\* ------------------------------------------------------------------------
\* what follows "Bearer " in the Authorization header: the digits of a user
\* id, a token of generate_token, or nothing
BearerId(user_id) == [kind |-> "id", user_id |-> user_id, token |-> NoToken]
BearerToken(token) == [kind |-> "token", user_id |-> None, token |-> token]
NoBearer == [kind |-> "none", user_id |-> None, token |-> NoToken]

\* _load_user_from_token: int(token) raises ValueError for the text of a
\* signed token, and User.query.get finds the user or None
_load_user_from_token(bearer) ==
    IF bearer.kind # "id" THEN None
    ELSE IF bearer.user_id \in Users THEN bearer.user_id
    ELSE None

\* a variant of LoginRequiredStatus for a decorator that is given no roles
LoginRequiredStatusNoRoles(user, role_values) ==
    IF user = None THEN "UNAUTHORIZED" ELSE "OK"

\* what wrapper of login_required answers: with roles given it reads
\* user.role, an attribute User does not have, and AttributeError ends the
\* request in 500
LoginRequiredStatus(user, role_values) ==
    IF user = None THEN "UNAUTHORIZED"
    ELSE IF role_values # {} THEN "INTERNAL_SERVER_ERROR"
    ELSE "OK"

\* wrapper of login_required(roles) around an operation, on a request that
\* carries bearer
login_required(bearer, roles) ==
    LET user == _load_user_from_token(bearer)
        status == LoginRequiredStatus(user, roles)
    IN /\ response' = Response("login_required", status)
       /\ g' = IF status = "OK" THEN Context(user, NoRole, "user") ELSE NoContext
       /\ request' = NoRequest
       /\ UNCHANGED <<store, principals, now, issued, resolution>>

\* the roles the expense routes give login_required
ExpenseRoleSets == { {"ADMIN", "FRANCHISEE", "STAFF"}, {"ADMIN", "FRANCHISEE"} }

\* the bearer values a caller sends to an expense route
Bearers ==
    {NoBearer} \cup { BearerId(u) : u \in {1, 3, 5} }
    \cup (IF issued = NoIssue THEN {} ELSE {BearerToken(issued.token)})

\* ------------------------------------------------------------------------
\* Login (routes/auth_routes.py)
\* ------------------------------------------------------------------------
\* Model.query.filter_by(...).first(): the matching row of lowest key, None
\* when no row matches
First(ids) == IF ids = {} THEN None ELSE Min(ids)

\* expires_in_minutes of generate_token when the caller gives none
DefaultExpiresInMinutes == 60 * 24

\* what login returns: the status and, with OK, the subject of the token
\* and the "role" and "scope" of the body
LoginResponse(status, user_type, id, role, scope_type, scope_id) ==
    [op |-> "login", status |-> status, user_type |-> user_type, id |-> id,
     role |-> role, scope_type |-> scope_type, scope_id |-> scope_id]

LoginRefused(status) == LoginResponse(status, "NONE", None, "NONE", "NONE", None)

\* the franchises table after _ensure_franchise_for_franchisor, called by a
\* request that runs alone
_ensure_franchise_for_franchisor(table, franchisor_id) ==
    LET existing == First({ f \in DOMAIN table : table[f].franchisor_id = franchisor_id })
        next_franchise_id == MaxId(DOMAIN table) + 1
    IN IF existing # None THEN table
       ELSE [f \in DOMAIN table \cup {next_franchise_id} |->
                IF f = next_franchise_id THEN Franchise(next_franchise_id, franchisor_id)
                ELSE table[f]]

\* what login answers to email and password
LoginResult(email, password) ==
    LET franchisor == First({ f \in Franchisors : franchisors[f].email = email })
        user == First({ u \in Users : users[u].email = email })
        user_role == _select_primary_role_login(user)
    IN IF email = "" \/ password = "" THEN LoginRefused("BAD_REQUEST")
       ELSE IF franchisor # None /\ verify_password(password, franchisors[franchisor].password_hash)
            THEN LoginResponse("OK", "franchisor", franchisor, "FRANCHISOR", "GLOBAL", None)
       ELSE IF user = None THEN LoginRefused("UNAUTHORIZED")
       ELSE IF ~verify_password(password, users[user].password_hash)
            THEN LoginRefused("UNAUTHORIZED")
       ELSE IF ~users[user].is_active THEN LoginRefused("FORBIDDEN")
       ELSE IF user_role = NoRole THEN LoginRefused("FORBIDDEN")
       ELSE LoginResponse("OK", "user", user, RoleName(user_role.role_id),
                          user_role.scope_type, user_role.scope_id)

\* login, served alone
login(email, password) ==
    LET result == LoginResult(email, password)
    IN /\ response' = result
       /\ franchises' = IF result.status = "OK" /\ result.user_type = "franchisor"
                        THEN _ensure_franchise_for_franchisor(franchises, result.id)
                        ELSE franchises
       /\ issued' = IF result.status = "OK"
                    THEN [token |-> GeneratedToken(result.id, result.user_type,
                                                   DefaultExpiresInMinutes, now),
                          user_id |-> result.id, user_type |-> result.user_type,
                          expires_in_minutes |-> DefaultExpiresInMinutes,
                          issued_at |-> now]
                    ELSE issued
       /\ g' = NoContext
       /\ request' = NoRequest
       /\ UNCHANGED <<store, users, user_roles, branches, franchisors, applications,
                      now, resolution>>

\* an administrator clears is_active of the user uid in the users table (no
\* route writes the column)
deactivate_user(uid) ==
    /\ uid \in Users
    /\ users[uid].is_active
    /\ users' = [users EXCEPT ![uid].is_active = FALSE]
    /\ UNCHANGED <<store, response, user_roles, branches, franchisors, franchises,
                   applications, access>>

\* the emails and passwords login is called with
EmailParams == {"", "admin@system.com", "mcd.manager@mcd.com", "relay.staff@relay.com",
                "applicant@mail.com"}
PasswordParams == {"admin123", "manager123", "staff123"}

\* ------------------------------------------------------------------------
\* Franchise applications (routes/franchise_routes.py)
\* ------------------------------------------------------------------------
\* what approve_application and reject_application answer, with the
\* application_id of the URL
DecisionResponse(op, status, application_id) ==
    [op |-> op, status |-> status, application_id |-> application_id]

\* the principal token_required has bound: a franchisor, or a user with the
\* primary assignment of the gate
FranchisorPrincipal(franchisor_id) == Context(franchisor_id, RoleStub, "franchisor")
UserPrincipal(uid) == Context(uid, _select_primary_role(uid), "user")

\* the committed rows of addresses: seed.py and approve_application write an
\* address together with the branch that refers to it
AddressIds(table) == { table[b].address_id : b \in DOMAIN table }

\* branch_code of approve_application: "BR-", the application id and the day
BranchCode(application_id) == <<"BR", application_id>>

\* the checks of approve_application, the gate of the decorator first
ApproveApplicationCheck(table, principal, application_id) ==
    IF ~is_allowed(CurrentRoleNameOf(principal.current_role), {"SYSTEM_ADMIN"})
    THEN "FORBIDDEN"
    ELSE IF application_id \notin DOMAIN table THEN "NOT_FOUND"
    ELSE IF table[application_id].branch_owner_user_id \notin Users THEN "BAD_REQUEST"
    ELSE IF table[application_id].status_id # APPLICATION_PENDING THEN "BAD_REQUEST"
    ELSE "PASS"

\* the branches table with the branch approve_application adds for application
BranchesWith(table, application, next_address_id, next_branch_id) ==
    [b \in DOMAIN table \cup {next_branch_id} |->
        IF b = next_branch_id
        THEN Branch(next_branch_id, application.franchise_id,
                    BranchCode(application.application_id), next_address_id,
                    application.branch_owner_user_id, None)
        ELSE table[b]]

\* the BRANCH_OWNER assignment approve_application gives the applicant
OwnerAssignment(application, branch_id) ==
    Assignment(application.branch_owner_user_id, ROLE_BRANCH_OWNER, "BRANCH", branch_id)

\* approve_application, served alone
approve_application(principal, application_id) ==
    LET check == ApproveApplicationCheck(applications, principal, application_id)
        application == applications[application_id]
        next_address_id == MaxId(AddressIds(branches)) + 1
        next_branch_id == MaxId(Branches) + 1
    IN /\ g' = IF check = "FORBIDDEN" THEN NoContext ELSE principal
       /\ IF check # "PASS"
          THEN /\ response' = DecisionResponse("approve_application", check, application_id)
               /\ UNCHANGED <<user_roles, branches, applications>>
          ELSE /\ branches' = BranchesWith(branches, application, next_address_id,
                                           next_branch_id)
               /\ user_roles' = user_roles \cup {OwnerAssignment(application, next_branch_id)}
               /\ applications' = [applications EXCEPT
                                      ![application_id].status_id = APPLICATION_APPROVED]
               /\ response' = DecisionResponse("approve_application", "OK", application_id)
       /\ UNCHANGED <<store, users, franchisors, franchises, now, issued, request,
                      resolution>>

\* the checks of reject_application, the gate of the decorator first
RejectApplicationCheck(table, principal, application_id) ==
    IF ~is_allowed(CurrentRoleNameOf(principal.current_role), {"SYSTEM_ADMIN", "FRANCHISOR"})
    THEN "FORBIDDEN"
    ELSE IF application_id \notin DOMAIN table THEN "NOT_FOUND"
    ELSE IF table[application_id].status_id # APPLICATION_PENDING THEN "BAD_REQUEST"
    ELSE "PASS"

\* reject_application, served alone (decision_notes is not kept)
reject_application(principal, application_id) ==
    LET check == RejectApplicationCheck(applications, principal, application_id)
    IN /\ g' = IF check = "FORBIDDEN" THEN NoContext ELSE principal
       /\ IF check # "PASS"
          THEN /\ response' = DecisionResponse("reject_application", check, application_id)
               /\ UNCHANGED applications
          ELSE /\ applications' = [applications EXCEPT
                                      ![application_id].status_id = APPLICATION_REJECTED]
               /\ response' = DecisionResponse("reject_application", "OK", application_id)
       /\ UNCHANGED <<store, users, user_roles, branches, franchisors, franchises, now,
                      issued, request, resolution>>

\* ------------------------------------------------------------------------
\* Registration (routes/auth_routes.py)
\* ------------------------------------------------------------------------
\* (payload.get("email") or "").strip().lower(), on the emails of EmailsRaw
lower(email) == IF email = "Admin@System.com" THEN "admin@system.com" ELSE email

\* "".join(filter(str.isdigit, phone_raw)), on the phones of PhonesRaw
sanitized_phone(phone_raw) ==
    IF phone_raw = "91000-00000" THEN "9100000000" ELSE phone_raw

\* len(sanitized_phone) == 10
TenDigits(phone) == phone \notin {"", "12345"}

\* email_pattern.match(email): something@something.something
email_pattern(email) == email \notin {"", "owner.brand.com"}

\* password_pattern.match(password): 8 characters or more, with a lower case
\* letter, an upper case letter and a digit
password_pattern(password) == password \in {"Applicant1"}

\* len(password) >= 8
EightOrMore(password) == password \in {"Applicant1", "staff123", "admin123", "manager123"}

\* the rows of a table that hold the email, the phone
EmailRows(table, email) == { k \in DOMAIN table : table[k].email = email }
PhoneRows(table, phone) == { k \in DOMAIN table : table[k].phone = phone }

\* a table with one more row
Inserted(table, key, row) ==
    [k \in DOMAIN table \cup {key} |-> IF k = key THEN row ELSE table[k]]

\* the checks of register_franchisor on the normalised fields
RegisterFranchisorCheck(email, phone, password) ==
    IF email = "" \/ phone = "" \/ password = "" THEN "BAD_REQUEST"
    ELSE IF ~email_pattern(email) THEN "BAD_REQUEST"
    ELSE IF ~TenDigits(phone) THEN "BAD_REQUEST"
    ELSE IF ~password_pattern(password) THEN "BAD_REQUEST"
    ELSE IF EmailRows(franchisors, email) # {} \/ EmailRows(users, email) # {} THEN "CONFLICT"
    ELSE IF PhoneRows(franchisors, phone) # {} \/ PhoneRows(users, phone) # {} THEN "CONFLICT"
    ELSE "PASS"

\* register_franchisor, served alone
register_franchisor(email_raw, phone_raw, password) ==
    LET email == lower(email_raw)
        phone == sanitized_phone(phone_raw)
        check == RegisterFranchisorCheck(email, phone, password)
        next_franchisor_id == MaxId(Franchisors) + 1
    IN /\ IF check # "PASS"
          THEN /\ response' = Response("register_franchisor", check)
               /\ UNCHANGED <<franchisors, franchises>>
          ELSE /\ franchisors' = Inserted(franchisors, next_franchisor_id,
                                          Franchisor(next_franchisor_id, email, phone,
                                                     hash_password(password)))
               /\ franchises' = _ensure_franchise_for_franchisor(franchises,
                                                                 next_franchisor_id)
               /\ response' = Response("register_franchisor", "CREATED")
       /\ g' = NoContext
       /\ UNCHANGED <<store, users, user_roles, branches, applications, now, issued,
                      request, resolution>>

\* the checks of register_franchisee on the normalised fields
RegisterFranchiseeCheck(email, phone, password, franchise_id) ==
    IF email = "" \/ phone = "" \/ password = "" \/ franchise_id = None THEN "BAD_REQUEST"
    ELSE IF ~password_pattern(password) THEN "BAD_REQUEST"
    ELSE IF ~TenDigits(phone) THEN "BAD_REQUEST"
    ELSE IF EmailRows(users, email) # {} THEN "CONFLICT"
    ELSE IF EmailRows(franchisors, email) # {} THEN "CONFLICT"
    ELSE IF PhoneRows(users, phone) # {} THEN "CONFLICT"
    ELSE IF PhoneRows(franchisors, phone) # {} THEN "CONFLICT"
    ELSE IF franchise_id \notin Franchises THEN "BAD_REQUEST"
    ELSE "PASS"

\* register_franchisee, served alone: the applicant's user row and the
\* application, PENDING
register_franchisee(email_raw, phone_raw, password, franchise_id) ==
    LET email == lower(email_raw)
        phone == sanitized_phone(phone_raw)
        check == RegisterFranchiseeCheck(email, phone, password, franchise_id)
        next_user_id == MaxId(Users) + 1
        next_application_id == MaxId(Applications) + 1
    IN /\ IF check # "PASS"
          THEN /\ response' = Response("register_franchisee", check)
               /\ UNCHANGED <<users, applications>>
          ELSE /\ users' = Inserted(users, next_user_id,
                                    User(next_user_id, email, phone,
                                         hash_password(password), TRUE))
               /\ applications' = Inserted(applications, next_application_id,
                                       FranchiseApplication(next_application_id, franchise_id,
                                                            next_user_id, APPLICATION_PENDING))
               /\ response' = Response("register_franchisee", "CREATED")
       /\ g' = NoContext
       /\ UNCHANGED <<store, user_roles, branches, franchisors, franchises, now, issued,
                      request, resolution>>

\* _require_owner_branch on the role and user of g
_require_owner_branch(principal, branch_id_param) ==
    LET role == principal.current_role
    IN IF role = NoRole \/ role.scope_type # "BRANCH" THEN Refused("FORBIDDEN")
       ELSE IF branch_id_param # None /\ branch_id_param # role.scope_id
            THEN Refused("FORBIDDEN")
       ELSE IF role.scope_id \notin Branches THEN Refused("NOT_FOUND")
       ELSE IF branches[role.scope_id].branch_owner_user_id # principal.current_user
            THEN Refused("FORBIDDEN")
       ELSE Resolved(role.scope_id)

\* _resolve_branch_for_staff on the role and user of g
_resolve_branch_for_staff(principal, branch_id_raw) ==
    LET role == principal.current_role
        owned == _require_owner_branch(principal, branch_id_raw)
    IN IF role = NoRole \/ role.scope_type # "BRANCH" THEN Refused("FORBIDDEN")
       ELSE IF CurrentRoleNameOf(role) = "BRANCH_OWNER"
            THEN IF owned.status # "PASS" THEN owned
                 ELSE IF branches[owned.branch_id].status_id # BRANCH_STATUS_ACTIVE
                      THEN Refused("BAD_REQUEST")
                 ELSE owned
       ELSE IF CurrentRoleNameOf(role) = "MANAGER"
            THEN IF branch_id_raw # None /\ branch_id_raw # role.scope_id
                 THEN Refused("FORBIDDEN")
                 ELSE IF role.scope_id \notin Branches THEN Refused("NOT_FOUND")
                 ELSE IF branches[role.scope_id].manager_user_id # principal.current_user
                      THEN Refused("FORBIDDEN")
                 ELSE IF branches[role.scope_id].status_id # BRANCH_STATUS_ACTIVE
                      THEN Refused("BAD_REQUEST")
                 ELSE Resolved(role.scope_id)
       ELSE Refused("FORBIDDEN")

\* the checks of register_staff on the normalised fields, the gate of the
\* decorator first: the email and the phone are looked up among the users
RegisterStaffCheck(principal, email, phone, password, branch_id_raw) ==
    IF ~is_allowed(CurrentRoleNameOf(principal.current_role), {"BRANCH_OWNER", "MANAGER"})
    THEN "FORBIDDEN"
    ELSE IF email = "" \/ phone = "" \/ password = "" THEN "BAD_REQUEST"
    ELSE IF ~TenDigits(phone) THEN "BAD_REQUEST"
    ELSE IF ~EightOrMore(password) THEN "BAD_REQUEST"
    ELSE IF EmailRows(users, email) # {} THEN "CONFLICT"
    ELSE IF PhoneRows(users, phone) # {} THEN "CONFLICT"
    ELSE _resolve_branch_for_staff(principal, branch_id_raw).status

\* register_staff, served alone: the user row and its STAFF assignment at the
\* branch
register_staff(principal, email_raw, phone_raw, password, branch_id_raw) ==
    LET email == lower(email_raw)
        phone == sanitized_phone(phone_raw)
        check == RegisterStaffCheck(principal, email, phone, password, branch_id_raw)
        branch == _resolve_branch_for_staff(principal, branch_id_raw)
        next_user_id == MaxId(Users) + 1
    IN /\ g' = IF check = "FORBIDDEN" /\ ~is_allowed(CurrentRoleNameOf(principal.current_role),
                                                      {"BRANCH_OWNER", "MANAGER"})
               THEN NoContext ELSE principal
       /\ IF check # "PASS"
          THEN /\ response' = Response("register_staff", check)
               /\ UNCHANGED <<users, user_roles>>
          ELSE /\ users' = Inserted(users, next_user_id,
                                    User(next_user_id, email, phone,
                                         hash_password(password), TRUE))
               /\ user_roles' = user_roles \cup
                      {Assignment(next_user_id, ROLE_STAFF, "BRANCH", branch.branch_id)}
               /\ response' = Response("register_staff", "CREATED")
       /\ UNCHANGED <<store, branches, franchisors, franchises, applications, now, issued,
                      request, resolution>>

\* ------------------------------------------------------------------------
\* Decisions on one application by concurrent requests
\* ------------------------------------------------------------------------
\* approve_application or reject_application up to the checks: the
\* application is selected and its status compared with PENDING
ApplicationLoad(w, op, franchisor_id, application_id) ==
    LET principal == FranchisorPrincipal(franchisor_id)
        check == IF op = "approve_application"
                 THEN ApproveApplicationCheck(applications, principal, application_id)
                 ELSE RejectApplicationCheck(applications, principal, application_id)
    IN /\ Free(w)
       /\ IF check # "PASS"
          THEN /\ workers' = [workers EXCEPT
                                 ![w] = Done(op, franchisor_id, application_id, check)]
               /\ response' = DecisionResponse(op, check, application_id)
          ELSE /\ workers' = [workers EXCEPT ![w] =
                      [Idle EXCEPT !.pc = "application_loaded", !.op = op,
                                   !.uid = franchisor_id, !.rid = application_id]]
               /\ UNCHANGED response
       /\ UNCHANGED <<inventory, ledger, requests, principals, access>>

\* approve_application: next_address_id is read, outside any lock
ApplicationNextAddress(w) ==
    LET me == workers[w]
    IN /\ me.pc = "application_loaded"
       /\ me.op = "approve_application"
       /\ workers' = [workers EXCEPT ![w].pc = "address_added",
                                     ![w].s = MaxId(AddressIds(branches)) + 1]
       /\ UNCHANGED <<inventory, ledger, requests, response, principals, access>>

\* approve_application from the flush of the address, which takes the write
\* lock, to the commit: an address id committed meanwhile fails the INSERT,
\* and otherwise the branch, the assignment and the status are written on
\* the application as it was loaded
ApplicationApproveCommit(w) ==
    LET me == workers[w]
        application == applications[me.rid]
        next_branch_id == MaxId(Branches) + 1
    IN /\ me.pc = "address_added"
       /\ IF me.s \in AddressIds(branches)
          THEN /\ workers' = [workers EXCEPT
                                 ![w] = Done(me.op, me.uid, me.rid, "INTERNAL_SERVER_ERROR")]
               /\ response' = DecisionResponse(me.op, "INTERNAL_SERVER_ERROR", me.rid)
               /\ UNCHANGED <<user_roles, branches, applications>>
          ELSE /\ branches' = BranchesWith(branches, application, me.s, next_branch_id)
               /\ user_roles' = user_roles \cup {OwnerAssignment(application, next_branch_id)}
               /\ applications' = [applications EXCEPT
                                      ![me.rid].status_id = APPLICATION_APPROVED]
               /\ workers' = [workers EXCEPT ![w] = Done(me.op, me.uid, me.rid, "OK")]
               /\ response' = DecisionResponse(me.op, "OK", me.rid)
       /\ UNCHANGED <<inventory, ledger, requests, users, franchisors, franchises, access>>

\* reject_application: the status is written on the application as it was
\* loaded, and committed
ApplicationRejectCommit(w) ==
    LET me == workers[w]
    IN /\ me.pc = "application_loaded"
       /\ me.op = "reject_application"
       /\ applications' = [applications EXCEPT ![me.rid].status_id = APPLICATION_REJECTED]
       /\ workers' = [workers EXCEPT ![w] = Done(me.op, me.uid, me.rid, "OK")]
       /\ response' = DecisionResponse(me.op, "OK", me.rid)
       /\ UNCHANGED <<inventory, ledger, requests, users, user_roles, branches, franchisors,
                      franchises, access>>

\* ------------------------------------------------------------------------
\* login and register_franchisor by concurrent requests
\* ------------------------------------------------------------------------
\* the franchises of a franchisor
FranchisesOf(table, franchisor_id) ==
    { f \in DOMAIN table : table[f].franchisor_id = franchisor_id }

\* a call inside _ensure_franchise_for_franchisor, for the franchisor uid;
\* response is what the call answers when it returns
Ensuring(pc, op, franchisor_id, next_franchise_id) ==
    [Idle EXCEPT !.pc = pc, !.op = op, !.uid = franchisor_id, !.s = next_franchise_id]

\* what a call that went through _ensure_franchise_for_franchisor answers
Ensured(op, franchisor_id) ==
    IF op = "login"
    THEN LoginResponse("OK", "franchisor", franchisor_id, "FRANCHISOR", "GLOBAL", None)
    ELSE Response(op, "CREATED")

\* login up to the SELECT of _ensure_franchise_for_franchisor: a login that
\* is refused and the login of a user return at once, and so does the login
\* of a franchisor who has a franchise
LoginBegin(w, email, password) ==
    LET result == LoginResult(email, password)
        ensures == /\ result.status = "OK"
                   /\ result.user_type = "franchisor"
                   /\ FranchisesOf(franchises, result.id) = {}
    IN /\ Free(w)
       /\ IF ensures
          THEN /\ workers' = [workers EXCEPT
                                 ![w] = Ensuring("ensure_selected", "login", result.id, None)]
               /\ UNCHANGED response
          ELSE /\ workers' = [workers EXCEPT
                                 ![w] = Done("login", result.id, None, result.status)]
               /\ response' = result
       /\ UNCHANGED <<inventory, ledger, requests, principals, access>>

\* register_franchisor up to the commit of the franchisor row
RegisterFranchisorBegin(w, email_raw, phone_raw, password) ==
    LET email == lower(email_raw)
        phone == sanitized_phone(phone_raw)
        check == RegisterFranchisorCheck(email, phone, password)
        next_franchisor_id == MaxId(Franchisors) + 1
    IN /\ Free(w)
       /\ IF check # "PASS"
          THEN /\ workers' = [workers EXCEPT
                                 ![w] = Done("register_franchisor", None, None, check)]
               /\ response' = Response("register_franchisor", check)
               /\ UNCHANGED franchisors
          ELSE /\ franchisors' = Inserted(franchisors, next_franchisor_id,
                                          Franchisor(next_franchisor_id, email, phone,
                                                     hash_password(password)))
               /\ workers' = [workers EXCEPT ![w] =
                      Ensuring("franchisor_committed", "register_franchisor",
                               next_franchisor_id, None)]
               /\ UNCHANGED response
       /\ UNCHANGED <<inventory, ledger, requests, users, user_roles, branches, franchises,
                      applications, access>>

\* _ensure_franchise_for_franchisor called by register_franchisor: the
\* SELECT of the existing franchise
EnsureSelect(w) ==
    LET me == workers[w]
    IN /\ me.pc = "franchisor_committed"
       /\ IF FranchisesOf(franchises, me.uid) # {}
          THEN /\ workers' = [workers EXCEPT ![w] = Done(me.op, me.uid, None, "CREATED")]
               /\ response' = Ensured(me.op, me.uid)
          ELSE /\ workers' = [workers EXCEPT ![w].pc = "ensure_selected"]
               /\ UNCHANGED response
       /\ UNCHANGED <<inventory, ledger, requests, principals, access>>

\* _ensure_franchise_for_franchisor: next_franchise_id is read
EnsureNextId(w) ==
    LET me == workers[w]
    IN /\ me.pc = "ensure_selected"
       /\ workers' = [workers EXCEPT ![w].pc = "ensure_added",
                                     ![w].s = MaxId(Franchises) + 1]
       /\ UNCHANGED <<inventory, ledger, requests, response, principals, access>>

\* _ensure_franchise_for_franchisor: the commit.  An id committed meanwhile
\* raises IntegrityError, which is caught: the session is rolled back, the
\* franchise is selected again, and the caller goes on with what is found
EnsureCommit(w) ==
    LET me == workers[w]
        status == IF me.op = "login" THEN "OK" ELSE "CREATED"
    IN /\ me.pc = "ensure_added"
       /\ franchises' = IF me.s \in Franchises THEN franchises
                        ELSE Inserted(franchises, me.s, Franchise(me.s, me.uid))
       /\ workers' = [workers EXCEPT ![w] = Done(me.op, me.uid, None, status)]
       /\ response' = Ensured(me.op, me.uid)
       /\ UNCHANGED <<inventory, ledger, requests, users, user_roles, branches, franchisors,
                      applications, access>>

\* the worker that served a call takes the next
Release(w) ==
    /\ workers[w].pc = "done"
    /\ workers' = [workers EXCEPT ![w] = Idle]
    /\ UNCHANGED <<inventory, ledger, requests, response, principals, access>>

\* ------------------------------------------------------------------------
\* Specification
\* ------------------------------------------------------------------------
\* users, user_roles and branches as seed.py leaves them
SeedPrincipals ==
    /\ users = SeedUsers
    /\ user_roles = SeedUserRoles
    /\ branches = SeedBranches

\* franchisors and franchises as seed.py leaves them, no application filed
SeedOrganisation ==
    /\ franchisors = SeedFranchisors
    /\ franchises = SeedFranchises
    /\ applications = <<>>

\* no token issued and no request served yet
GateAtRest ==
    /\ now = 0
    /\ issued = NoIssue
    /\ g = NoContext
    /\ request = NoRequest
    /\ resolution = NoResolution

Init ==
    /\ SeedOrganisation
    /\ inventory = SeedInventory
    /\ ledger = {}
    /\ requests = {}
    /\ response = Response("none", "NONE")
    /\ workers = [w \in Workers |-> Idle]
    /\ SeedPrincipals
    /\ GateAtRest

Next ==
    \/ \E uid \in {2, 3}, s \in {2, 4}, code \in {"OUT", "RETURN"} :
            create_transaction(uid, None, s, code, Number(4))
            /\ UNCHANGED <<principals, access>>
    \/ \E s \in {1, 4}, q \in {0, 4} : record_stock_delivery(3, None, s, Number(q))
            /\ UNCHANGED <<principals, access>>
    \/ \E uid \in {1, 3}, s \in {1, 2}, q \in {-4, 4} :
            create_branch_inventory(uid, None, s, Number(q))
            /\ UNCHANGED <<principals, access>>
    \/ \E bp \in BranchParams, items \in SalePayloads : create_sale(3, bp, items)
            /\ UNCHANGED <<principals, access>>
    \/ \E uid \in {1, 2}, bp \in {None, 2}, items \in RequestPayloads :
            create_request(uid, bp, items)
            /\ UNCHANGED <<principals, access>>
    \/ \E uid \in {1, 2}, rid \in RequestIdParams : approve_request(uid, rid)
            /\ UNCHANGED <<principals, access>>
    \/ \E uid \in {1, 2}, rid \in RequestIdParams, notes \in NotesParams :
            reject_request(uid, rid, notes)
            /\ UNCHANGED <<principals, access>>

Spec == Init /\ [][Next]_vars

\* the calls of two concurrent workers
NextConc ==
    \/ \E w \in Workers, uid \in {2, 3}, s \in {1, 2}, code \in {"IN", "OUT"} :
            TxnBegin(w, uid, s, code, Number(4))
            /\ UNCHANGED <<principals, access>>
    \/ \E w \in Workers : TxnCommit(w)
            /\ UNCHANGED <<principals, access>>
    \/ \E w \in Workers, uid \in {1, 2}, rid \in RequestIdParams : ApproveLoad(w, uid, rid)
            /\ UNCHANGED <<principals, access>>
    \/ \E w \in Workers : ApproveRead(w)
            /\ UNCHANGED <<principals, access>>
    \/ \E w \in Workers : ApproveCommit(w)
            /\ UNCHANGED <<principals, access>>
    \/ \E w \in Workers, rid \in RequestIdParams : RejectLoad(w, 1, rid)
            /\ UNCHANGED <<principals, access>>
    \/ \E w \in Workers : RejectCommit(w)
            /\ UNCHANGED <<principals, access>>
    \/ \E w \in Workers : Abort(w)
            /\ UNCHANGED <<principals, access>>
    \/ \E items \in RequestPayloads : create_request(2, None, items)
            /\ UNCHANGED <<principals, access>>

SpecConc == Init /\ [][NextConc]_vars

\* the branches table with the status of branch b set to INACTIVE
Deactivated(table, b) == [table EXCEPT ![b].status_id = BRANCH_STATUS_INACTIVE]

\* the ledger engine alone, on the store as it is before any stock is
\* recorded: no row in branch_inventories, none in inventory_transactions.
\* A second branch, of franchise 2, has been opened for its owner, the user
\* 4, and branch 1 is ACTIVE or INACTIVE.
InitLedger ==
    /\ SeedOrganisation
    /\ inventory = {}
    /\ ledger = {}
    /\ requests = {}
    /\ response = Response("none", "NONE")
    /\ workers = [w \in Workers |-> Idle]
    /\ users = RegisteredUsers(TRUE)
    /\ user_roles = SeedUserRoles \cup {Assignment(4, ROLE_BRANCH_OWNER, "BRANCH", 2)}
    /\ branches \in { OpenedBranches(2), Deactivated(OpenedBranches(2), 1) }
    /\ GateAtRest

NextLedger ==
    \/ \E uid \in {2, 4}, s \in StockItemParams, code \in TypeParams, q \in QuantityParams :
            create_transaction(uid, None, s, code, q)
            /\ UNCHANGED <<principals, access>>
    \/ \E uid \in {3, 4}, s \in StockItemParams, q \in DeliveryQuantityParams :
            record_stock_delivery(uid, None, s, q)
            /\ UNCHANGED <<principals, access>>

SpecLedger == InitLedger /\ [][NextLedger]_vars

\* branch 2 as a second branch of franchise 1
SiblingBranches == [OpenedBranches(2) EXCEPT ![2].franchise_id = 1]

\* two concurrent create_transaction calls, of the manager of branch 1 and
\* of the owner of branch 2, on the seeded store after branch 2 has been
\* opened in the same franchise
InitBranches ==
    /\ SeedOrganisation
    /\ inventory = SeedInventory
    /\ ledger = {}
    /\ requests = {}
    /\ response = Response("none", "NONE")
    /\ workers = [w \in Workers |-> Idle]
    /\ users = RegisteredUsers(TRUE)
    /\ user_roles = SeedUserRoles \cup {Assignment(4, ROLE_BRANCH_OWNER, "BRANCH", 2)}
    /\ branches = SiblingBranches
    /\ GateAtRest

NextBranches ==
    \/ \E w \in Workers, uid \in {2, 4}, s \in StockItemParams, code \in {"IN", "OUT"} :
            TxnRead(w, uid, s, code, Number(4))
            /\ UNCHANGED <<principals, access>>
    \/ \E w \in Workers : TxnFlush(w)
            /\ UNCHANGED <<principals, access>>
    \/ \E w \in Workers : TxnLocked(w)
            /\ UNCHANGED <<principals, access>>
    \/ \E w \in Workers : TxnCommitFlushed(w)
            /\ UNCHANGED <<principals, access>>

SpecBranches == InitBranches /\ [][NextBranches]_vars

\* the token codec and the gate, on the seeded store after an applicant has
\* registered and the staff member has been made inactive
InitGate ==
    /\ SeedOrganisation
    /\ inventory = SeedInventory
    /\ ledger = {}
    /\ requests = {}
    /\ response = Response("none", "NONE")
    /\ workers = [w \in Workers |-> Idle]
    /\ users = RegisteredUsers(FALSE)
    /\ user_roles = SeedUserRoles
    /\ branches = SeedBranches
    /\ GateAtRest

NextGate ==
    \/ \E user_id \in SubjectParams, user_type \in UserTypeParams,
          expires_in_minutes \in ExpiresInParams :
            generate_token(user_id, user_type, expires_in_minutes)
    \/ \E token \in Presented, allowed_roles \in AllowedRoleSets :
            wrapper(token, allowed_roles)
    \/ \E t \in ClockValues : Tick(t)

SpecGate == InitGate /\ [][NextGate]_vars

\* login and the gate, on the seeded store after an applicant has registered:
\* users log in, present the token login gave them to token_required, call
\* record_stock_delivery, and are made inactive meanwhile
InitLogin ==
    /\ SeedOrganisation
    /\ inventory = SeedInventory
    /\ ledger = {}
    /\ requests = {}
    /\ response = Response("none", "NONE")
    /\ workers = [w \in Workers |-> Idle]
    /\ users = RegisteredUsers(TRUE)
    /\ user_roles = SeedUserRoles
    /\ branches = SeedBranches
    /\ GateAtRest

NextLogin ==
    \/ \E email \in EmailParams, password \in PasswordParams : login(email, password)
    \/ \E allowed_roles \in AllowedRoleSets :
            issued # NoIssue /\ wrapper(issued.token, allowed_roles)
    \/ \E uid \in {2, 3} : deactivate_user(uid)
    \/ \E uid \in {2, 3}, s \in {1} :
            /\ record_stock_delivery(uid, None, s, Number(4))
            /\ UNCHANGED <<principals, access>>

SpecLogin == InitLogin /\ [][NextLogin]_vars

\* the fields registration requests carry: the details of the seeded
\* franchisor in another spelling, those of two newcomers, a second request
\* with a newcomer's email, and an incomplete one
Registration(email, phone, password) ==
    [email |-> email, phone |-> phone, password |-> password]

Registrations ==
    { Registration("Admin@System.com", "91000-00000", "Applicant1"),
      Registration("owner@brand.com", "9555555555", "Applicant1"),
      Registration("applicant@mail.com", "9666666666", "Applicant1"),
      Registration("applicant@mail.com", "9555555555", "staff123"),
      Registration("", "12345", "staff123") }

\* the seeded store: the franchisor, the franchise, the branch and the three
\* users of seed.py, nothing posted
InitOnboarding ==
    /\ SeedOrganisation
    /\ inventory = SeedInventory
    /\ ledger = {}
    /\ requests = {}
    /\ response = Response("none", "NONE")
    /\ workers = [w \in Workers |-> Idle]
    /\ users = SeedUsers
    /\ user_roles = SeedUserRoles
    /\ branches = SeedBranches
    /\ GateAtRest

\* registration and the decisions on applications, one call at a time; users
\* and franchisors call with the principal the gate binds for them
NextOnboarding ==
    \/ \E r \in Registrations : register_franchisor(r.email, r.phone, r.password)
    \/ \E r \in Registrations, franchise_id \in {1, 2} :
            register_franchisee(r.email, r.phone, r.password, franchise_id)
    \/ \E uid \in {1, 2, 3}, r \in Registrations, branch_id_raw \in {None, 1} :
            register_staff(UserPrincipal(uid), r.email, r.phone, r.password, branch_id_raw)
    \/ \E f \in Franchisors, application_id \in {1, 2} :
            approve_application(FranchisorPrincipal(f), application_id)
    \/ \E f \in Franchisors, application_id \in {1, 2} :
            reject_application(FranchisorPrincipal(f), application_id)
    \/ \E uid \in {1}, application_id \in {1} :
            \/ approve_application(UserPrincipal(uid), application_id)
            \/ reject_application(UserPrincipal(uid), application_id)

SpecOnboarding == InitOnboarding /\ [][NextOnboarding]_vars

\* the seeded store; applicants register, and the franchisor decides on
\* their applications in requests served at the same time
NextDecide ==
    \/ \E r \in Registrations :
            /\ register_franchisee(r.email, r.phone, r.password, 1)
            /\ UNCHANGED workers
    \/ \E w \in Workers, op \in {"approve_application", "reject_application"},
          application_id \in {1, 2} :
            ApplicationLoad(w, op, 1, application_id)
    \/ \E w \in Workers : ApplicationNextAddress(w)
    \/ \E w \in Workers : ApplicationApproveCommit(w)
    \/ \E w \in Workers : ApplicationRejectCommit(w)

SpecDecide == InitOnboarding /\ [][NextDecide]_vars

\* the emails and passwords of the logins that run beside a registration
SignInEmails == {"", "admin@system.com", "owner@brand.com", "applicant@mail.com",
                 "relay.staff@relay.com"}
SignInPasswords == {"admin123", "Applicant1", "staff123"}

\* the seeded store; franchisors register and principals log in, in requests
\* served at the same time
NextSignIn ==
    \/ \E w \in Workers, email \in SignInEmails, password \in SignInPasswords :
            LoginBegin(w, email, password)
    \/ \E w \in Workers, r \in Registrations :
            RegisterFranchisorBegin(w, r.email, r.phone, r.password)
    \/ \E w \in Workers : EnsureSelect(w)
    \/ \E w \in Workers : EnsureNextId(w)
    \/ \E w \in Workers : EnsureCommit(w)
    \/ \E w \in Workers : Release(w)

SpecSignIn == InitOnboarding /\ [][NextSignIn]_vars

\* a session: a user who holds one assignment or several logs in and presents
\* the token of that login to token_required
InitSession ==
    /\ SeedOrganisation
    /\ inventory = SeedInventory
    /\ ledger = {}
    /\ requests = {}
    /\ response = Response("none", "NONE")
    /\ workers = [w \in Workers |-> Idle]
    /\ users = RegisteredUsers(TRUE)
    /\ user_roles \in { SeedUserRoles \cup held : held \in AssignmentTables }
    /\ branches = OpenedBranches(2)
    /\ GateAtRest

NextSession ==
    \/ \E email \in EmailParams, password \in PasswordParams \cup {UserPassword(4)} :
            login(email, password)
    \/ \E allowed_roles \in AllowedRoleSets :
            issued # NoIssue /\ wrapper(issued.token, allowed_roles)

SpecSession == InitSession /\ [][NextSession]_vars

\* purchase requests of branch 1 and their approvers: the manager 2 files
\* requests for branch 1, the owner 1 of branch 1 and the user 4, who is
\* BRANCH_OWNER over branch 2, franchise 2 or franchise 1, approve and reject
ApproverAssignments ==
    { Assignment(4, ROLE_BRANCH_OWNER, "BRANCH", 2),
      Assignment(4, ROLE_BRANCH_OWNER, "FRANCHISE", 2),
      Assignment(4, ROLE_BRANCH_OWNER, "FRANCHISE", 1) }

InitAccess ==
    /\ SeedOrganisation
    /\ inventory = SeedInventory
    /\ ledger = {}
    /\ requests = {}
    /\ response = Response("none", "NONE")
    /\ workers = [w \in Workers |-> Idle]
    /\ users = RegisteredUsers(TRUE)
    /\ user_roles \in { SeedUserRoles \cup {held} : held \in ApproverAssignments }
    /\ branches = OpenedBranches(2)
    /\ GateAtRest

NextAccess ==
    \/ \E items \in { <<PayloadEntry(1, Number(3))>>,
                       <<PayloadEntry(1, Number(3)), PayloadEntry(2, Number(5))>> } :
            create_request(2, None, items)
            /\ UNCHANGED <<principals, access>>
    \/ \E uid \in {1, 4}, rid \in RequestIdParams : approve_request(uid, rid)
            /\ UNCHANGED <<principals, access>>
    \/ \E uid \in {1, 4}, rid \in RequestIdParams, notes \in NotesParams :
            reject_request(uid, rid, notes)
            /\ UNCHANGED <<principals, access>>

SpecAccess == InitAccess /\ [][NextAccess]_vars

\* two concurrent create_transaction calls of the owner and the manager of
\* branch 1 on the seeded store: stock item 2 has no row in
\* branch_inventories, stock item 1 has one
InitCreate ==
    /\ SeedOrganisation
    /\ inventory = SeedInventory
    /\ ledger = {}
    /\ requests = {}
    /\ response = Response("none", "NONE")
    /\ workers = [w \in Workers |-> Idle]
    /\ SeedPrincipals
    /\ GateAtRest

NextCreate ==
    \/ \E w \in Workers, uid \in {1, 2}, s \in {1, 2}, code \in {"IN", "OUT"} :
            TxnRead(w, uid, s, code, Number(4))
            /\ UNCHANGED <<principals, access>>
    \/ \E w \in Workers : CreateNextId(w) /\ UNCHANGED <<principals, access>>
    \/ \E w \in Workers : CreateFlush(w) /\ UNCHANGED <<principals, access>>
    \/ \E w \in Workers : workers[w].record # NoRecord /\ TxnFlush(w)
            /\ UNCHANGED <<principals, access>>
    \/ \E w \in Workers : TxnCommitFlushed(w) /\ UNCHANGED <<principals, access>>

SpecCreate == InitCreate /\ [][NextCreate]_vars

\* both gates on the store of InitGate: callers get tokens, present them or
\* what they make of them to token_required, and present bearer values to
\* login_required
NextBearer ==
    \/ \E user_id \in SubjectParams, user_type \in {"franchisor", "user"} :
            generate_token(user_id, user_type, 1)
    \/ \E token \in Presented, allowed_roles \in AllowedRoleSets :
            wrapper(token, allowed_roles)
    \/ \E bearer \in Bearers, roles \in ExpenseRoleSets : login_required(bearer, roles)

SpecBearer == InitGate /\ [][NextBearer]_vars

\* the branch resolvers, on the seeded store after a second branch has been
\* opened: the user 4 holds one of the assignment tables, and the manager
\* pointer of branch 1 names the manager 2 or the user 4
InitScope ==
    /\ SeedOrganisation
    /\ inventory = SeedInventory
    /\ ledger = {}
    /\ requests = {}
    /\ response = Response("none", "NONE")
    /\ workers = [w \in Workers |-> Idle]
    /\ users = RegisteredUsers(TRUE)
    /\ user_roles \in { SeedUserRoles \cup held : held \in AssignmentTables }
    /\ branches \in { OpenedBranches(manager) : manager \in {2, 4} }
    /\ GateAtRest

NextScope ==
    \E resolver \in BranchResolvers \cup {"_branch_scope"}, uid \in Callers \cup {4},
       explicit_branch_id \in ExplicitBranchParams :
        \/ ResolveBranch(resolver, uid, explicit_branch_id)
        \/ ResolveBranchFranchisor(resolver, uid, explicit_branch_id)

SpecScope == InitScope /\ [][NextScope]_vars

\* ------------------------------------------------------------------------
\* Properties
\* ------------------------------------------------------------------------
\* the quantity the cache holds for a pair, 0 when it has no row
Quantity(inv, b, s) == IF CacheOf(inv, b, s) = {} THEN 0 ELSE FirstInventory(inv, b, s).quantity

\* the quantity seed.py gave the pair, 0 when it gave none
SeedQuantity(b, s) == Quantity(SeedInventory, b, s)

\* the ledger rows that the approval of request rid posted
PostedRows(led, rid) == { t \in led : t.note = <<"request", rid>> }

\* the k-th row of rows in the order of transaction_id
IsNth(rows, t, k) ==
    /\ t \in rows
    /\ Cardinality({ o \in rows : o.transaction_id < t.transaction_id }) = k - 1

\* the total that the entries k.. of a request ask of stock item s
RECURSIVE TotalRequested(_, _, _)
TotalRequested(items, k, s) ==
    IF k > Len(items) THEN 0
    ELSE (IF items[k].stock_item_id = s THEN items[k].requested_quantity ELSE 0)
            + TotalRequested(items, k + 1, s)

Terminal(r) == r.status_id \in {STATUS_APPROVED, STATUS_REJECTED}

\* C1: after any sequence of create_transaction and record_stock_delivery
\* calls, each running _apply_transaction and committing, every (branch,
\* stock item) pair that has a cache row has in it the sum of quantity_change
\* over the pair's ledger rows, and a pair without a cache row has no ledger
\* row.
C1_CacheEqualsLedgerSum ==
    (/\ response.op \in {"create_transaction", "record_stock_delivery"}
     /\ response.status = "CREATED")
    => \A b \in Branches, s \in StockItems :
          /\ \A r \in CacheOf(inventory, b, s) : r.quantity = LedgerSum(ledger, b, s)
          /\ CacheOf(inventory, b, s) = {} => LedgerOf(ledger, b, s) = {}

\* C2: in every committed state reached from the seeded store, the quantity
\* of every cache row equals the sum of quantity_change of its pair's ledger
\* rows.
C2_SeededCacheEqualsLedgerSum ==
    \A r \in inventory : r.quantity = LedgerSum(ledger, r.branch_id, r.stock_item_id)

\* the status approve_request gives a caller before it looks at the status
\* of the request: the role gate and the access check, else "PASS"
ApproveAdmission(uid, rid) ==
    LET gate == token_required(uid, {"BRANCH_OWNER"})
    IN IF gate # "PASS" THEN gate
       ELSE _ensure_request_access(uid, RequestOf(requests, rid))

\* C3: approve_request on a request that is APPROVED or REJECTED, called by
\* an approver who passes the role gate and the access check, returns
\* Conflict, adds no ledger row and leaves every cache quantity and the
\* request's status, approver and approval time unchanged.
C3_TerminalApproveConflict ==
    [][\A uid \in Callers, rid \in RequestIdParams :
          (/\ response'.op = "approve_request"
           /\ rid \in RequestIds(requests)
           /\ Terminal(RequestOf(requests, rid))
           /\ ApproveAdmission(uid, rid) = "PASS"
           /\ approve_request(uid, rid))
          => (/\ response'.status = "CONFLICT"
              /\ ledger' = ledger
              /\ inventory' = inventory
              /\ requests' = requests)]_vars

\* C4: a successful approve_request by approver uid of a PENDING request of
\* branch b with items (s1,q1)..(sN,qN) adds exactly N ledger rows, the k-th
\* with branch b, stock item sk, kind IN, quantity_change +qk and
\* created_by = approved_by = uid; raises the cache quantity of every pair
\* (b, s) by the total requested for s, a pair without a row counting from 0
\* and getting one; and leaves the request APPROVED with approved_by = uid,
\* approved_at set and everything else of it, and every other request, as
\* it was.
C4_ApprovePosts ==
    [][\A uid \in Callers, rid \in RequestIdParams :
          (/\ response' = Response("approve_request", "OK")
           /\ rid \in RequestIds(requests)
           /\ RequestOf(requests, rid).status_id = STATUS_PENDING
           /\ approve_request(uid, rid))
          => LET r == RequestOf(requests, rid)
                 N == Len(r.items)
                 new == ledger' \ ledger
             IN /\ ledger \subseteq ledger'
                /\ Cardinality(new) = N
                /\ \A k \in 1..N : \E t \in new :
                      /\ IsNth(new, t, k)
                      /\ t.branch_id = r.branch_id
                      /\ t.stock_item_id = r.items[k].stock_item_id
                      /\ t.transaction_type_id = TYPE_IN
                      /\ t.quantity_change = r.items[k].requested_quantity
                      /\ t.quantity_change > 0
                      /\ t.created_by_user_id = uid
                      /\ t.approved_by_user_id = uid
                /\ \A s \in StockItems :
                      /\ Quantity(inventory', r.branch_id, s)
                            = Quantity(inventory, r.branch_id, s) + TotalRequested(r.items, 1, s)
                      /\ TotalRequested(r.items, 1, s) > 0
                            => Cardinality(CacheOf(inventory', r.branch_id, s)) = 1
                /\ RequestIds(requests') = RequestIds(requests)
                /\ RequestOf(requests', rid) =
                      [r EXCEPT !.status_id = STATUS_APPROVED,
                                !.approved_by_user_id = uid,
                                !.approved_at = utcnow]
                /\ RequestOf(requests', rid).approved_at # NoTime
                /\ \A o \in requests : o.request_id # rid => o \in requests']_vars

\* C4 witness: approve_request has just succeeded on a request for stock
\* item 1, which had a cache row, and stock item 2, which had none
C4_Witness ==
    /\ response = Response("approve_request", "OK")
    /\ \E r \in requests :
          /\ r.status_id = STATUS_APPROVED
          /\ r.approved_by_user_id = 1
          /\ r.items = <<RequestEntry(1, 3), RequestEntry(2, 5)>>
          /\ Cardinality(PostedRows(ledger, r.request_id)) = 2
          /\ Quantity(inventory, r.branch_id, 1) = SeedQuantity(r.branch_id, 1) + 3
          /\ Quantity(inventory, r.branch_id, 2) = 5

\* every posting of request r is in rows: the k-th row of rows, in the order
\* of transaction_id, is the posting of the k-th item of r
AllPosted(r, rows) ==
    \A k \in 1..Len(r.items) : \E t \in rows :
        /\ IsNth(rows, t, k)
        /\ t.branch_id = r.branch_id
        /\ t.stock_item_id = r.items[k].stock_item_id
        /\ t.quantity_change = r.items[k].requested_quantity

\* C5: approval is atomic.  In every committed state, under any interleaving
\* of concurrent calls: a PENDING request has no posted row, a request with
\* a posted row has all of its items posted, and an APPROVED request has all
\* of its items posted; and an approve_request call that ends without
\* success commits nothing: no ledger row, no cache change, no status change.
C5_ApprovalAtomic ==
    /\ [](\A r \in requests :
            /\ r.status_id = STATUS_PENDING => PostedRows(ledger, r.request_id) = {}
            /\ PostedRows(ledger, r.request_id) # {}
                  => AllPosted(r, PostedRows(ledger, r.request_id))
            /\ r.status_id = STATUS_APPROVED
                  => AllPosted(r, PostedRows(ledger, r.request_id)))
    /\ [][\A w \in Workers :
            (/\ workers[w].pc # "done"
             /\ workers'[w].pc = "done"
             /\ workers'[w].op = "approve_request"
             /\ workers'[w].status # "OK")
            => (ledger' = ledger /\ inventory' = inventory /\ requests' = requests)]_vars

\* C5 witness: one approve_request call on a two-item request failed after
\* it had read the first cache row, another one on the same request
\* succeeded, and the request is APPROVED with both items posted
C5_Witness ==
    \E w1, w2 \in Workers, r \in requests :
        /\ workers[w1] = Done("approve_request", 1, r.request_id, "INTERNAL_SERVER_ERROR")
        /\ workers[w2] = Done("approve_request", 1, r.request_id, "OK")
        /\ r.status_id = STATUS_APPROVED
        /\ Len(r.items) = 2
        /\ Cardinality(PostedRows(ledger, r.request_id)) = 2

\* C6: of two concurrent calls on the same PENDING request, two
\* approve_request or an approve_request and a reject_request, under any
\* interleaving of their reads and commits, at most one succeeds and the
\* other is refused, so the items are posted at most once: an N-item request
\* never has more than N posted rows and a REJECTED request has none.
C6_OneDecisionPerRequest ==
    /\ \A w1, w2 \in Workers :
          (/\ w1 # w2
           /\ workers[w1].pc = "done" /\ workers[w2].pc = "done"
           /\ workers[w1].op = "approve_request"
           /\ workers[w2].op \in {"approve_request", "reject_request"}
           /\ workers[w1].rid = workers[w2].rid)
          => ~(workers[w1].status = "OK" /\ workers[w2].status = "OK")
    /\ \A r \in requests :
          /\ Cardinality(PostedRows(ledger, r.request_id)) <= Len(r.items)
          /\ r.status_id = STATUS_REJECTED => PostedRows(ledger, r.request_id) = {}

\* C7: two concurrent mutations of the same (branch, stock item) balance do
\* not interleave their read-modify-write steps: whatever has committed, the
\* cache quantity of the pair is the quantity it had before the calls plus
\* the delta of every ledger row committed for it; no update is lost.
C7_NoLostUpdate ==
    \A r \in inventory :
        r.quantity = SeedQuantity(r.branch_id, r.stock_item_id)
                        + LedgerSum(ledger, r.branch_id, r.stock_item_id)

\* C8: a request is created PENDING, its status is always one of PENDING,
\* APPROVED, REJECTED, and once it is APPROVED or REJECTED no create_request,
\* approve_request or reject_request call, nor any other call, changes its
\* status: the request stays in the store with the status it has.
C8_StatusMachine ==
    /\ [](\A r \in requests :
            r.status_id \in {STATUS_PENDING, STATUS_APPROVED, STATUS_REJECTED})
    /\ [][/\ \A r \in requests' :
                r.request_id \notin RequestIds(requests) => r.status_id = STATUS_PENDING
          /\ \A r \in requests :
                Terminal(r) =>
                    /\ r.request_id \in RequestIds(requests')
                    /\ RequestOf(requests', r.request_id).status_id = r.status_id]_vars

\* C8 witness: reject_request has just been refused on a request that is
\* APPROVED, next to a request that is REJECTED
C8_Witness ==
    /\ response = Response("reject_request", "BAD_REQUEST")
    /\ \E r1, r2 \in requests :
          /\ r1.status_id = STATUS_APPROVED
          /\ r2.status_id = STATUS_REJECTED

\* C9: approval is the only purchase-request event that touches the ledger.
\* A create_request or reject_request call, successful or not, leaves the
\* set of ledger rows and every cache row unchanged; and a row posted for a
\* request appears only in a step that takes that request from PENDING to
\* APPROVED.
C9_OnlyApprovalPosts ==
    [][/\ response'.op \in {"create_request", "reject_request"}
            => (ledger' = ledger /\ inventory' = inventory)
       /\ \A rid \in RequestIdParams :
            PostedRows(ledger', rid) # PostedRows(ledger, rid)
                => /\ response' = Response("approve_request", "OK")
                   /\ rid \in RequestIds(requests)
                   /\ RequestOf(requests, rid).status_id = STATUS_PENDING
                   /\ RequestOf(requests', rid).status_id = STATUS_APPROVED]_vars

\* C9 witness: reject_request has just succeeded and create_request has
\* left a PENDING request, while the ledger holds a row and the cache of
\* stock item 1 holds the seeded quantity plus that row
C9_Witness ==
    /\ response = Response("reject_request", "OK")
    /\ \E r1, r2 \in requests :
          /\ r1.status_id = STATUS_REJECTED
          /\ r2.status_id = STATUS_PENDING
    /\ \E t \in ledger :
          t.stock_item_id = 1
          /\ Quantity(inventory, t.branch_id, 1) = SeedQuantity(t.branch_id, 1) + t.quantity_change

\* C10: the ledger is append-only: every committed ledger row is in the
\* ledger, unchanged, after every call.
C10_LedgerAppendOnly ==
    [][ledger \subseteq ledger']_vars

\* C10 witness: two rows for the same pair, written by two calls, both in
\* the ledger
C10_Witness ==
    \E t1, t2 \in ledger :
        /\ t1.transaction_id < t2.transaction_id
        /\ t1.branch_id = t2.branch_id
        /\ t1.stock_item_id = t2.stock_item_id
        /\ t1.note[1] = "delivery"
        /\ t2.note[1] \in {"delivery", "request"}

\* the payload segment of the token reads as a JSON object with a numeric exp
HasExpiry(token) ==
    /\ token.parts = 3
    /\ ~_b64url_decode(token.payload).raised
    /\ json_loads(token.payload.data).is_dict
    /\ token.payload.data.value.exp_number

\* the clock reads later than the exp of the token
Expired(token, clock) ==
    HasExpiry(token) /\ clock > token.payload.data.value.exp * TicksPerSecond

\* C11: a request whose token carries an expiry epoch and is verified at a
\* later clock time is answered UNAUTHORIZED, whether the signature of the
\* token is right or not, and wrapper does not call the operation.
C11_ExpiredUnauthenticated ==
    (response.op = "wrapper" /\ Expired(request.token, request.at))
        => (response.status = "UNAUTHORIZED" /\ g = NoContext)

\* the request carries the token issued last with another payload segment
\* under the same header and signature segments
PayloadReplaced ==
    /\ response.op = "wrapper"
    /\ issued # NoIssue
    /\ request.token.parts = 3
    /\ request.token.header = issued.token.header
    /\ request.token.signature = issued.token.signature
    /\ request.token.payload # issued.token.payload

\* C12: a token of generate_token whose payload segment is replaced by any
\* other payload segment, header and signature segments kept, is answered
\* UNAUTHORIZED and the operation is not called: what an accepted token says
\* of subject, kind and expiry is what was signed.
C12_PayloadTamperUnauthenticated ==
    PayloadReplaced => (response.status = "UNAUTHORIZED" /\ g = NoContext)

\* the signature segment of the token is the base64url text of the HMAC of
\* its header and payload segments under the secret
SignatureMatches(token) ==
    /\ ~_b64url_decode(token.signature).raised
    /\ token.signature.data
         = hmac_new(_get_jwt_secret, signing_input(token.header, token.payload))

\* the payload segment of the token is the base64url text of a JSON text
PayloadReadable(token) ==
    /\ ~_b64url_decode(token.payload).raised
    /\ ~json_loads(token.payload.data).raised

\* the failures of verification: no token, not three segments, a signature
\* that does not match, a payload that cannot be decoded, an expired token
VerificationFailure(token, clock) ==
    \/ token.parts # 3
    \/ ~SignatureMatches(token)
    \/ ~PayloadReadable(token)
    \/ Expired(token, clock)

\* C13: every failure of token verification (token missing, not exactly three
\* segments, signature mismatch, undecodable payload, expired) gets one and
\* the same answer, UNAUTHORIZED, whichever check failed.
C13_OneUnauthenticatedOutcome ==
    (response.op = "wrapper" /\ VerificationFailure(request.token, request.at))
        => response.status = "UNAUTHORIZED"

\* issue time + ttl of the token issued last, in ticks
IssuedUntil == issued.issued_at + issued.expires_in_minutes * TicksPerMinute

\* verifying the token issued last now gives a payload with the subject and
\* the kind it was issued for
VerifiesAsIssued ==
    LET decoded == _decode_token(issued.token, now)
    IN /\ decoded.outcome = "payload"
       /\ decoded.payload.sub = issued.user_id
       /\ decoded.payload.typ = issued.user_type

\* C14 as claimed: the token issued for an id, a kind of {franchisor, user}
\* and a ttl verifies at every clock time up to issue time + ttl, with that
\* subject, that kind and the expiry issue time + ttl; no other kind gets a
\* token.
C14_RoundTrip ==
    issued # NoIssue
        => /\ issued.user_type \in {"franchisor", "user"}
           /\ now <= IssuedUntil
                => /\ VerifiesAsIssued
                   /\ _decode_token(issued.token, now).payload.exp * TicksPerSecond
                        = IssuedUntil

\* C14 amended: the expiry of the token is the whole second in which issue
\* time + ttl falls, and the token verifies, with the subject and the kind
\* it was issued for, at every clock time up to that second; no other kind
\* gets a token.
C14_RoundTripWholeSeconds ==
    issued # NoIssue
        => /\ issued.user_type \in {"franchisor", "user"}
           /\ issued.token.payload.data.value.exp = IssuedUntil \div TicksPerSecond
           /\ now <= (IssuedUntil \div TicksPerSecond) * TicksPerSecond
                => /\ VerifiesAsIssued
                   /\ _decode_token(issued.token, now).payload.exp
                        = IssuedUntil \div TicksPerSecond

\* a token issued for one minute is presented at the second of its expiry,
\* later than it was issued, and the operation is called for its subject
C14_Witness ==
    /\ issued # NoIssue
    /\ issued.expires_in_minutes = 1
    /\ response = Response("wrapper", "OK")
    /\ request.token = issued.token
    /\ request.at > issued.issued_at
    /\ request.at = issued.token.payload.data.value.exp * TicksPerSecond
    /\ g.current_user = issued.user_id
    /\ g.current_user_type = issued.user_type

\* g.current_role of the caller of the resolver applied last
ResolvingRole == g.current_role

\* C15: in each of the resolvers of purchase requests, inventory and sales,
\* a caller whose assignment has scope BRANCH and scope id b and who names a
\* branch other than b is refused with FORBIDDEN: the caller gets neither b
\* nor the branch named.
C15_BranchScopeForbidden ==
    (/\ resolution.resolver \in BranchResolvers
     /\ ResolvingRole.scope_type = "BRANCH"
     /\ resolution.explicit_branch_id # None
     /\ resolution.explicit_branch_id # ResolvingRole.scope_id)
        => resolution.result = Refused("FORBIDDEN")

C17_PointerAgrees ==
    (/\ resolution.resolver # "none"
     /\ ResolvingRole.scope_type = "BRANCH"
     /\ resolution.result.status = "PASS")
        => /\ RoleName(ResolvingRole.role_id) = "MANAGER"
                => BranchRow(resolution.result.branch_id).manager_user_id = resolution.uid
           /\ RoleName(ResolvingRole.role_id) = "BRANCH_OWNER"
                => BranchRow(resolution.result.branch_id).branch_owner_user_id
                     = resolution.uid

\* what _load_principal_from_token gave wrapper for the request served last
Loaded == _load_principal_from_token(request.token, request.at)

\* wrapper has served a request of an authenticated principal on a route
\* with a non-empty allowed_roles that does not hold the principal's role
RoleNotAllowed ==
    /\ response.op = "wrapper"
    /\ request.allowed_roles # {}
    /\ ~Loaded.raised
    /\ Loaded.principal # None
    /\ Loaded.role_name \notin request.allowed_roles

\* C18 as claimed: a principal of any kind whose role name is not in a
\* non-empty allowed_roles is answered FORBIDDEN and the operation is not
\* called.
C18_RoleGate ==
    RoleNotAllowed => (response.status = "FORBIDDEN" /\ g = NoContext)

\* C18 amended: the same for every principal but a franchisor on a route
\* that allows SYSTEM_ADMIN, for whom the operation is called.
C18_RoleGateWithAlias ==
    RoleNotAllowed
        => IF Loaded.role_name = "FRANCHISOR" /\ "SYSTEM_ADMIN" \in request.allowed_roles
           THEN response.status = "OK" /\ g.current_user = Loaded.principal
           ELSE response.status = "FORBIDDEN" /\ g = NoContext

\* the branch owner, an active user, has been refused with FORBIDDEN on a
\* route that allows SYSTEM_ADMIN only
C18_Witness ==
    /\ RoleNotAllowed
    /\ Loaded.user_type = "user"
    /\ users[Loaded.principal].is_active
    /\ Loaded.role_name = "BRANCH_OWNER"
    /\ request.allowed_roles = {"SYSTEM_ADMIN"}
    /\ response.status = "FORBIDDEN"

\* wrapper has served a request whose token names a user without any row in
\* user_roles
NoRoleAssigned ==
    /\ response.op = "wrapper"
    /\ ~Loaded.raised
    /\ Loaded.principal # None
    /\ Loaded.user_type = "user"
    /\ { a \in UserRoles : a.user_id = Loaded.principal } = {}

\* C19: a user without role assignment is refused with FORBIDDEN by the gate
\* whatever its allowed_roles, none included, and the operation is never
\* called with a context whose role is absent.
C19_NoRoleNeverAdmitted ==
    /\ NoRoleAssigned => (response.status = "FORBIDDEN" /\ g = NoContext)
    /\ g # NoContext => g.current_role # NoRole

\* scope priority: BRANCH before FRANCHISE before GLOBAL
ScopePriority(scope_type) ==
    CASE scope_type = "BRANCH" -> 1
      [] scope_type = "FRANCHISE" -> 2
      [] scope_type = "GLOBAL" -> 3
      [] OTHER -> 4

\* the assignment of uid first by scope priority, then by lowest scope id
FirstByScopePriority(uid) ==
    LET mine == { a \in UserRoles : a.user_id = uid }
    IN IF mine = {} THEN NoRole
       ELSE CHOOSE a \in mine : \A o \in mine :
                \/ ScopePriority(a.scope_type) < ScopePriority(o.scope_type)
                \/ /\ a.scope_type = o.scope_type
                   /\ a.scope_id <= o.scope_id

\* C20: the role a request is authorized with is the caller's assignment
\* first by scope priority (BRANCH, FRANCHISE, GLOBAL) and then by lowest
\* scope id, and login selects the same assignment.
C20_PrimaryByScopePriority ==
    resolution # NoResolution /\ g.current_user_type = "user" =>
        /\ g.current_role = FirstByScopePriority(resolution.uid)
        /\ _select_primary_role_login(resolution.uid) = FirstByScopePriority(resolution.uid)

Abs(d) == IF d < 0 THEN -d ELSE d

\* the delta the sign rule prescribes for input d: +|d| for IN, -|d| for OUT,
\* d for ADJUSTMENT
SignedDelta(code, d) ==
    CASE code = "IN" -> Abs(d)
      [] code = "OUT" -> -Abs(d)
      [] OTHER -> d

\* the numbers a create_transaction call is given as quantity
NumberParams == {-3, 2, 4}

\* C21: a create_transaction call of kind IN, OUT or ADJUSTMENT with input
\* quantity d that succeeds adds one ledger row whose quantity_change is
\* +|d| for IN, -|d| for OUT and d for ADJUSTMENT, and changes the cache
\* quantity of the pair by the same value.
C21_SignNormalized ==
    [][response' = Response("create_transaction", "CREATED") =>
       \A uid \in {2, 4}, s \in StockItemParams, code \in {"IN", "OUT", "ADJUSTMENT"},
          d \in NumberParams :
          create_transaction(uid, None, s, code, Number(d))
          => /\ Cardinality(ledger' \ ledger) = 1
             /\ \A t \in ledger' \ ledger :
                   /\ t.stock_item_id = s
                   /\ t.transaction_type_id = TransactionTypeId(code)
                   /\ t.quantity_change = SignedDelta(code, d)
                   /\ Quantity(inventory', t.branch_id, s)
                         = Quantity(inventory, t.branch_id, s) + SignedDelta(code, d)]_vars

\* C21 witness: create_transaction has recorded an IN given as -3 and an OUT
\* given as 4
C21_Witness ==
    /\ response = Response("create_transaction", "CREATED")
    /\ \E t \in ledger : t.transaction_type_id = TYPE_IN /\ t.quantity_change = 3
    /\ \E t \in ledger : t.transaction_type_id = TYPE_OUT /\ t.quantity_change = -4
    /\ Quantity(inventory, 1, 1) = -1

\* C22: a create_transaction call of kind OUT or ADJUSTMENT by the manager of
\* branch 1 for a stock item of its franchise succeeds whatever the quantity
\* of the pair is, and lowers that quantity by the delta, below zero if the
\* delta is larger.
C22_NoFloor ==
    [][response'.op = "create_transaction" =>
       \A code \in {"OUT", "ADJUSTMENT"}, d \in NumberParams :
          create_transaction(2, None, 1, code, Number(d))
          => /\ response'.status = "CREATED"
             /\ Cardinality(ledger' \ ledger) = 1
             /\ \A t \in ledger' \ ledger : t.quantity_change = SignedDelta(code, d)
             /\ Quantity(inventory', 1, 1) = Quantity(inventory, 1, 1) + SignedDelta(code, d)]_vars

\* C22 witness: an OUT of 4 on a quantity of 2 has been recorded as -4 and
\* the quantity is -2
C22_Witness ==
    /\ response = Response("create_transaction", "CREATED")
    /\ \E t \in ledger : t.transaction_id = 1 /\ t.quantity_change = 2
    /\ \E t \in ledger :
          /\ t.transaction_id = 2
          /\ t.transaction_type_id = TYPE_OUT
          /\ t.quantity_change = -4
    /\ Quantity(inventory, 1, 1) = -2

\* C23: a create_transaction call by the manager of branch 1, for a stock
\* item of its franchise, with a kind other than IN, OUT and ADJUSTMENT is
\* answered with Unprocessable Entity, not Bad Request, and leaves the
\* ledger and every cache row as they were.
C23_UnknownKindUnprocessable ==
    [][response'.op = "create_transaction" =>
       \A code \in TypeParams \ {"IN", "OUT", "ADJUSTMENT"}, q \in QuantityParams :
          create_transaction(2, None, 1, code, q)
          => /\ response'.status = "UNPROCESSABLE_ENTITY"
             /\ response'.status # "BAD_REQUEST"
             /\ ledger' = ledger
             /\ inventory' = inventory]_vars

\* a quantity that is not a number
NonNumeric(quantity_raw) == quantity_raw.text \notin {"number", "null"}

\* stock item s is not one of the franchise of branch b
ForeignItem(b, s) ==
    s \notin StockItems \/ StockItemRow(s).franchise_id # BranchRow(b).franchise_id

\* C24: a create_transaction or record_stock_delivery call of a caller who
\* passes the gate, with a stock item that is not of the franchise of the
\* caller's branch or with a quantity that is not a number, is answered with
\* Bad Request and writes nothing; and every ledger row and every cache row
\* pairs a branch with a stock item of the franchise of that branch.
C24_ForeignItemOrQuantityBadRequest ==
    /\ [](\A t \in ledger \cup inventory : ~ForeignItem(t.branch_id, t.stock_item_id))
    /\ [][response'.op = "create_transaction" =>
          \A uid \in {2, 4}, s \in StockItemParams, code \in {"IN", "OUT", "ADJUSTMENT"},
             q \in QuantityParams :
             (/\ ForeignItem(_select_primary_role(uid).scope_id, s) \/ NonNumeric(q)
              /\ create_transaction(uid, None, s, code, q))
             => /\ response'.status = "BAD_REQUEST"
                /\ ledger' = ledger
                /\ inventory' = inventory]_vars
    /\ [][response'.op = "record_stock_delivery" =>
          \A uid \in {3, 4}, s \in StockItemParams, q \in DeliveryQuantityParams :
             (/\ ForeignItem(_select_primary_role(uid).scope_id, s) \/ NonNumeric(q)
              /\ record_stock_delivery(uid, None, s, q))
             => /\ response'.status = "BAD_REQUEST"
                /\ ledger' = ledger
                /\ inventory' = inventory]_vars

\* C25: no ledger row is added for a branch that is INACTIVE at the time of
\* the call.  No call changes the status of a branch, so a row of an
\* INACTIVE branch has been added while it was INACTIVE.
C25_InactiveBranchNoLedgerRow ==
    \A t \in ledger : BranchRow(t.branch_id).status_id # BRANCH_STATUS_INACTIVE

\* _apply_transaction called once for each of the entries k.. of items, in
\* order, by the user uid: kind IN, delta the requested quantity, the note
\* linking the request rid
RECURSIVE ApplyEach(_, _, _, _, _, _, _)
ApplyEach(inv, led, items, k, b, uid, rid) ==
    IF k > Len(items) THEN [inventory |-> inv, ledger |-> led]
    ELSE LET s == items[k].stock_item_id
             applied == _apply_transaction(inv, led, FirstInventory(inv, b, s), b, s,
                                           items[k].requested_quantity,
                                           TransactionTypeId("IN"), uid, <<"request", rid>>)
         IN ApplyEach(applied.inventory, applied.ledger, items, k + 1, b, uid, rid)

InvalidEntry(entry) ==
    \/ entry.stock_item_id \notin StockItems
    \/ entry.requested_quantity.text # "number"
    \/ entry.requested_quantity.value <= 0

\* C27: every committed request has at least one item, and each of its
\* items has a requested quantity above zero and a stock item of the
\* franchise of the request's branch; a create_request call that succeeds
\* or commits anything has a payload that is not empty and has no invalid
\* entry at any position.
C27_RequestsWellFormed ==
    /\ [](\A r \in requests :
            /\ Len(r.items) >= 1
            /\ \A k \in 1..Len(r.items) :
                  /\ r.items[k].requested_quantity > 0
                  /\ ~ForeignItem(r.branch_id, r.items[k].stock_item_id))
    /\ [][(/\ response'.op = "create_request"
           /\ response'.status = "CREATED" \/ requests' # requests) =>
          \A uid \in Callers, bp \in BranchParams, items \in RequestPayloads :
             create_request(uid, bp, items)
             => /\ items # <<>>
                /\ \A k \in 1..Len(items) : ~InvalidEntry(items[k])]_vars

\* C27 witness: create_request has committed a request of one item and has
\* then been given a payload whose second entry has a quantity that is no
\* number
C27_Witness ==
    /\ response = Response("create_request", "INTERNAL_SERVER_ERROR")
    /\ \E r \in requests : r.items = <<RequestEntry(1, 3)>>
    /\ \A r \in requests : Len(r.items) = 1

\* C28: a successful reject_request by approver uid with notes on a PENDING
\* request leaves the request REJECTED and holding the approver, the time of
\* the rejection (in rejected_at or in approved_at) and the notes.
C28_RejectRecords ==
    [][response' = Response("reject_request", "OK") =>
       \A uid \in Callers, rid \in RequestIds(requests), notes \in NotesParams :
          (/\ RequestOf(requests, rid).status_id = STATUS_PENDING
           /\ reject_request(uid, rid, notes))
          => LET rejected == RequestOf(requests', rid)
             IN /\ rejected.status_id = STATUS_REJECTED
                /\ rejected.approved_by_user_id = uid
                /\ rejected.rejected_at # NoTime \/ rejected.approved_at # NoTime
                /\ rejected.note = notes]_vars

\* C29: create_transaction calls on different branches do not interfere: no
\* call waits for the write of a call on another branch, and no call with
\* valid input ends in an error.
C29_BranchesIndependent ==
    \A w \in Workers :
        /\ workers[w].status # "INTERNAL_SERVER_ERROR"
        /\ workers[w].pc = "txn_read"
              => \A o \in Workers \ {w} :
                    workers[o].pc = "txn_flushed" => workers[o].b = workers[w].b

\* C30: in each of the resolvers of purchase requests, inventory and sales,
\* a caller whose role has scope GLOBAL and who names no branch is refused
\* with BAD_REQUEST, one who names an existing branch gets that branch
\* whatever its franchise, and one who names a branch that does not exist
\* gets no branch.
C30_GlobalResolvesExisting ==
    (/\ resolution.resolver \in BranchResolvers
     /\ ResolvingRole.scope_type = "GLOBAL")
        => /\ resolution.explicit_branch_id = None
                => resolution.result = Refused("BAD_REQUEST")
           /\ resolution.explicit_branch_id \in Branches
                => resolution.result = Resolved(resolution.explicit_branch_id)
           /\ (resolution.explicit_branch_id # None
               /\ resolution.explicit_branch_id \notin Branches)
                => resolution.result.status # "PASS"

\* C31: a user whose is_active is false is never admitted: login refuses
\* the user and issues no token, token_required answers FORBIDDEN to the
\* token login gave the user while active and binds nothing, an operation
\* called with it answers FORBIDDEN, and none of them changes the store.
C31_InactiveNeverAdmitted ==
    [][/\ \A email \in EmailParams, password \in PasswordParams :
            (/\ login(email, password)
             /\ response'.status = "OK"
             /\ response'.user_type = "user")
                => users[response'.id].is_active
       /\ \A email \in EmailParams, password \in PasswordParams :
            (/\ login(email, password)
             /\ response'.status # "OK")
                => UNCHANGED <<store, principals, issued>>
       /\ \A allowed_roles \in AllowedRoleSets :
            (/\ issued # NoIssue
             /\ issued.user_type = "user"
             /\ ~users[issued.user_id].is_active
             /\ wrapper(issued.token, allowed_roles))
                => /\ response' = Response("wrapper", "FORBIDDEN")
                   /\ g' = NoContext
                   /\ UNCHANGED <<store, principals>>
       /\ \A uid \in {2, 3} :
            (/\ ~users[uid].is_active
             /\ record_stock_delivery(uid, None, 1, Number(4)))
                => /\ response' = Response("record_stock_delivery", "FORBIDDEN")
                   /\ UNCHANGED store]_vars

\* the staff member 3 has logged in, has been made inactive, and has then
\* presented the token to a route that asks for no role: FORBIDDEN
C31_Witness ==
    /\ issued.user_type = "user"
    /\ issued.user_id = 3
    /\ ~users[3].is_active
    /\ request.token = issued.token
    /\ request.allowed_roles = {}
    /\ response = Response("wrapper", "FORBIDDEN")
    /\ g = NoContext

\* the role of the caller uid covers the branch of the request rid: scope
\* BRANCH with the id of that branch, or scope FRANCHISE with the id of the
\* franchise of that branch
ScopeCovers(uid, rid) ==
    LET role == _select_primary_role(uid)
        b == RequestOf(requests, rid).branch_id
    IN \/ role.scope_type = "BRANCH" /\ role.scope_id = b
       \/ role.scope_type = "FRANCHISE" /\ b \in Branches
            /\ BranchRow(b).franchise_id = role.scope_id

\* C32: approve_request and reject_request, called on an existing request
\* by a BRANCH_OWNER whose role has scope BRANCH with another branch's id, or
\* scope FRANCHISE with the id of a franchise that does not own the
\* request's branch, answer FORBIDDEN and leave requests, ledger and
\* inventory as they were.
C32_ApproverScopeCovers ==
    [][/\ response'.op = "approve_request"
            => \A uid \in {1, 4}, rid \in RequestIds(requests) :
                    (approve_request(uid, rid) /\ ~ScopeCovers(uid, rid))
                        => /\ response'.status = "FORBIDDEN"
                           /\ UNCHANGED <<requests, ledger, inventory>>
       /\ response'.op = "reject_request"
            => \A uid \in {1, 4}, rid \in RequestIds(requests), notes \in NotesParams :
                    (reject_request(uid, rid, notes) /\ ~ScopeCovers(uid, rid))
                        => /\ response'.status = "FORBIDDEN"
                           /\ UNCHANGED <<requests, ledger, inventory>>]_vars

\* the user 4, whose franchise 2 does not own branch 1, has been refused on
\* a pending request of branch 1
C32_Witness ==
    /\ Assignment(4, ROLE_BRANCH_OWNER, "FRANCHISE", 2) \in UserRoles
    /\ response \in {Response("approve_request", "FORBIDDEN"),
                     Response("reject_request", "FORBIDDEN")}
    /\ requests # {}
    /\ \A r \in requests : r.branch_id = 1 /\ r.status_id = STATUS_PENDING
    /\ ledger = {}

\* C33: branch_inventories holds at most one row per (branch, stock item),
\* also when two calls fetch-or-create the row of a pair concurrently, and
\* no call fails on a key allocated as max + 1.
C33_OneRowPerPair ==
    /\ \A r1 \in inventory, r2 \in inventory :
            (r1.branch_id = r2.branch_id /\ r1.stock_item_id = r2.stock_item_id) => r1 = r2
    /\ \A w \in Workers : workers[w].status # "INTERNAL_SERVER_ERROR"

C35_LoginReportsBoundRole ==
    [][(/\ response.op = "login"
        /\ response.status = "OK"
        /\ response'.op = "wrapper"
        /\ response'.status = "OK")
            => /\ CurrentRoleNameOf(g'.current_role) = response.role
               /\ g'.current_role.scope_type = response.scope_type
               /\ g'.current_role.scope_id = response.scope_id]_vars

\* the franchisor who owns the franchise an application is addressed to
FranchisorOf(application_id) ==
    franchises[applications[application_id].franchise_id].franchisor_id

\* C36: an approve or reject call by a franchisor on an application addressed
\* to a franchise of another franchisor is answered Forbidden and changes
\* neither the application nor the branches nor the role assignments.
C36_OwnApplicationsOnly ==
    [][(/\ response'.op \in {"approve_application", "reject_application"}
        /\ g'.current_user_type = "franchisor"
        /\ response'.application_id \in Applications
        /\ FranchisorOf(response'.application_id) # g'.current_user)
            => /\ response'.status = "FORBIDDEN"
               /\ UNCHANGED <<applications, branches, user_roles>>]_vars

\* C38: after any sequence of register-franchisor, register-franchisee and
\* register-staff calls no email and no phone number is held by two
\* principals: two users, two franchisors, or a user and a franchisor.
C38_OnePrincipalPerContact ==
    /\ \A u \in Users, o \in Users :
            u # o => users[u].email # users[o].email /\ users[u].phone # users[o].phone
    /\ \A f \in Franchisors, o \in Franchisors :
            f # o => /\ franchisors[f].email # franchisors[o].email
                     /\ franchisors[f].phone # franchisors[o].phone
    /\ \A u \in Users, f \in Franchisors :
            /\ users[u].email # franchisors[f].email
            /\ users[u].phone # franchisors[f].phone

\* C37: an application is decided exactly once.  Its status is written only
\* while it is PENDING; and under any interleaving of approve and reject
\* calls it gives rise to at most one branch, which belongs to the applicant,
\* who holds the BRANCH_OWNER assignment scoped to that branch.
C37_DecidedOnce ==
    [][\A a \in Applications :
        /\ applications'[a].status_id # applications[a].status_id
                => applications[a].status_id = APPLICATION_PENDING
        /\ Cardinality({ b \in DOMAIN branches' : branches'[b].code = BranchCode(a) }) <= 1
        /\ \A b \in DOMAIN branches' :
                branches'[b].code = BranchCode(a)
                    => /\ branches'[b].branch_owner_user_id = applications[a].branch_owner_user_id
                       /\ OwnerAssignment(applications[a], b) \in user_roles']_vars

\* C39: login is idempotent on the store.  A login that is refused writes
\* nothing; a successful login of a franchisor leaves that franchisor with
\* exactly one franchise, and writes nothing when the franchisor had one
\* already, however the logins are interleaved.
C39_LoginIdempotent ==
    [][\A w \in Workers :
        (/\ workers[w].pc # "done"
         /\ workers'[w].pc = "done"
         /\ workers'[w].op = "login")
            => /\ response'.status # "OK" => UNCHANGED principals
               /\ response'.status = "OK" /\ response'.user_type = "franchisor"
                    => /\ Cardinality(FranchisesOf(franchises', response'.id)) = 1
                       /\ FranchisesOf(franchises, response'.id) # {}
                            => UNCHANGED principals]_vars


====
